---- MODULE Spec2Model ----
(***************************************************************************)
(* A model of the Twiddle SDK introspection pipeline:                      *)
(*   Module Loader  (sdk/twiddle_sdk/introspection/discovery.py)           *)
(*   Discovery      (sdk/twiddle_sdk/introspection/discovery.py)           *)
(*   Validator      (SDK/twiddle_sdk/introspection/validator.py)           *)
(*   lint command   (SDK/twiddle_sdk/cli/lint.py)                          *)
(* One specification per component; all share the variables below.         *)
(***************************************************************************)
EXTENDS Integers, Sequences, FiniteSets, TLC

VARIABLES
    registry,        \* sys.modules restricted to the names the loader makes:
                     \*   a function  module name -> module handle
    nloads,          \* number of load_module_from_path calls made so far
    last,            \* the outcome of the latest load_module_from_path call
    scan,            \* the state of one discover_all_in_directory call
    val,             \* the latest validate_activity / validate_workflow call
    disc,            \* the latest discover_activities / discover_workflows call
    lint,            \* the latest run_linter call
    rep,             \* the latest format_lint_results call
    ext,             \* the latest call of the metadata extractor
    gen,             \* the latest call of a generate-everything entry point
    conv,            \* the latest run of the convert command
    proj,            \* the file system under the output directory of init,
                     \*   and the latest run of the init command
    exec,            \* the execution log, and the logger or wrapped call that
                     \*   writes to it
    store            \* the metadata records attached to decorated objects,
                     \*   and the latest pipeline operation on them

vars == <<registry, nloads, last, scan, val, disc, lint, rep, ext, gen, conv, proj,
         exec, store>>

-----------------------------------------------------------------------------
(* Bounds of the model.                                                    *)

\* id(path) is the address of a temporary Path object: the addresses the
\* allocator hands out
NumAddrs == 2
\* load_module_from_path calls in one process
MaxLoads == 3
\* source files in one scanned directory tree
MaxFiles == 3
\* parameters in the signature of a candidate function
MaxParams == 2

-----------------------------------------------------------------------------
(* Exceptions.  Python's `except Exception` catches the classes that       *)
(* derive from Exception; SystemExit (raised by sys.exit() in a module     *)
(* body) derives from BaseException only.                                  *)

ExceptionClasses ==
    {"SyntaxError", "RuntimeError", "ImportError", "ValueError",
     "FileNotFoundError", "TypeError"}

\* asyncio.CancelledError derives from BaseException as well
BaseExceptionOnly == {"SystemExit", "CancelledError"}

\* isinstance(e, Exception): what an `except Exception` clause catches
IsException(e) == e \in ExceptionClasses

-----------------------------------------------------------------------------
(* Files.  A path is <dir>/<stem><suffix>.  The body of a source file is   *)
(* what happens when it is executed: it completes, or raises `raises` with *)
(* str(e) = msg (and exit status `code` for SystemExit).                   *)

Dirs == {"d1", "d2"}
Stems == {"a", "b"}
Suffixes == {".py", ".txt"}

Paths == [dir : Dirs, stem : Stems, suffix : Suffixes]

NoPath == [dir |-> "", stem |-> "", suffix |-> ""]

BodyOk == [raises |-> "none", msg |-> "", code |-> 0]

Bodies ==
    { BodyOk,
      [raises |-> "SyntaxError",  msg |-> "invalid syntax", code |-> 0],
      [raises |-> "RuntimeError", msg |-> "boom",           code |-> 0],
      [raises |-> "SystemExit",   msg |-> "0",              code |-> 0],
      [raises |-> "SystemExit",   msg |-> "3",              code |-> 3] }

Addrs == 1..NumAddrs

\* module_name = f"twiddle_loaded_{path.stem}_{id(path)}"
module_name(path, addr) == [stem |-> path.stem, id |-> addr]

NoModule == 0

\* str(path)
str(path) == path.dir \o "/" \o path.stem \o path.suffix

\* sys.modules[name] = module
RegistrySet(reg, name, module) ==
    [n \in (DOMAIN reg) \cup {name} |-> IF n = name THEN module ELSE reg[n]]

\* del sys.modules[name]
RegistryDel(reg, name) == [n \in (DOMAIN reg) \ {name} |-> reg[n]]

\* load_module_from_path testing the suffix before the existence of the path
load_module_suffix_first(reg, f, addr, handle) ==
    LET name == module_name(f.path, addr)
        registered == RegistrySet(reg, name, handle)
    IN  IF f.path.suffix # ".py"
        THEN [raised |-> "ValueError",
              message |-> "Not a Python file: " \o str(f.path),
              cause |-> "none", registry |-> reg, module |-> NoModule,
              name |-> name, executed |-> FALSE]
        ELSE IF ~f.exists
        THEN [raised |-> "FileNotFoundError",
              message |-> "Module not found: " \o str(f.path),
              cause |-> "none", registry |-> reg, module |-> NoModule,
              name |-> name, executed |-> FALSE]
        ELSE IF f.body.raises = "none"
        THEN [raised |-> "none", message |-> "",
              cause |-> "none", registry |-> registered, module |-> handle,
              name |-> name, executed |-> TRUE]
        ELSE IF IsException(f.body.raises)
        THEN [raised |-> "ImportError",
              message |-> "Error loading module " \o str(f.path) \o ": " \o f.body.msg,
              cause |-> f.body.raises,
              registry |-> RegistryDel(registered, name), module |-> NoModule,
              name |-> name, executed |-> TRUE]
        ELSE [raised |-> f.body.raises,
              message |-> f.body.msg,
              cause |-> "none", registry |-> registered, module |-> NoModule,
              name |-> name, executed |-> TRUE]

(* load_module_from_path(path).  f is the file system's answer for the     *)
(* path: f.path, f.exists, f.body and f.members (the module namespace the  *)
(* body builds).  addr is id(path); handle identifies the module object    *)
(* created.  Returns what was raised ("none": the module is returned), the *)
(* message of the exception, the original exception (the `from e` cause),  *)
(* the registry afterwards and whether the body was executed.              *)
(* spec_from_file_location never returns None for a ".py" suffix, so the   *)
(* branch of line 41 is not reachable.                                     *)
load_module_from_path(reg, f, addr, handle) ==
    LET name == module_name(f.path, addr)
        registered == RegistrySet(reg, name, handle)
    IN  IF ~f.exists
        THEN [raised |-> "FileNotFoundError",
              message |-> "Module not found: " \o str(f.path),
              cause |-> "none", registry |-> reg, module |-> NoModule,
              name |-> name, executed |-> FALSE]
        ELSE IF f.path.suffix # ".py"
        THEN [raised |-> "ValueError",
              message |-> "Not a Python file: " \o str(f.path),
              cause |-> "none", registry |-> reg, module |-> NoModule,
              name |-> name, executed |-> FALSE]
        ELSE IF f.body.raises = "none"
        THEN [raised |-> "none", message |-> "",
              cause |-> "none", registry |-> registered, module |-> handle,
              name |-> name, executed |-> TRUE]
        ELSE IF IsException(f.body.raises)
        THEN [raised |-> "ImportError",
              message |-> "Error loading module " \o str(f.path) \o ": " \o f.body.msg,
              cause |-> f.body.raises,
              registry |-> RegistryDel(registered, name), module |-> NoModule,
              name |-> name, executed |-> TRUE]
        ELSE [raised |-> f.body.raises,
              message |-> f.body.msg,
              cause |-> "none", registry |-> registered, module |-> NoModule,
              name |-> name, executed |-> TRUE]

-----------------------------------------------------------------------------
(* Python objects found in a module.  An object has an identity (id), a    *)
(* kind ("function": inspect.isfunction holds; "class": inspect.isclass    *)
(* holds; "callable": another callable object; "other"), and what the      *)
(* pipeline reads from it:                                                 *)
(*   activity_decorated  @activity(...) was applied to this very object    *)
(*   workflow_decorated  @workflow(...) was applied to this very object    *)
(*   base_workflow       a base class of this class carries the workflow   *)
(*                       metadata                                          *)
(*   is_async            inspect.iscoroutinefunction(obj)                  *)
(*   has_name            the object has the attribute __name__ (name is    *)
(*                       then its value, else str(obj))                    *)
(*   has_signature       inspect.signature(obj) succeeds                   *)
(*   signature_raises    the exception inspect.signature(obj) raises       *)
(*   params              the parameters of the signature, in order         *)
(*   has_return          "return" in obj.__annotations__                   *)
(*   run                 the class member `run`: absent, callable or not   *)

Kinds == {"function", "class", "callable", "other"}

ParamNames == {"self", "cls", "input_data", "x", "y"}

\* Parameter.__init__(label, required, default, ...): the descriptor object.
\* Every combination of the arguments is stored as given; nothing is checked.
\* has_default: the default argument is not None.
ParameterDescriptor(label, required, has_default) ==
    [label |-> label, description |-> "", required |-> required,
     has_default |-> has_default, template |-> FALSE, secret |-> FALSE]

\* the descriptors used as defaults of activity parameters
Descriptors ==
    { ParameterDescriptor("L", required, has_default) :
        required \in BOOLEAN, has_default \in BOOLEAN }

\* the default of a parameter that is no Parameter instance
NoDescriptor == [label |-> "", description |-> "", required |-> FALSE,
                 has_default |-> FALSE, template |-> FALSE, secret |-> FALSE]

\* the annotation of a parameter, by what extractor.py lines 41-51 read of it:
\*   present      param.annotation != inspect.Parameter.empty
\*   has_origin   hasattr(annotation, "__origin__")
\*   has_args     hasattr(annotation, "__args__")
\*   args         annotation.__args__: of each argument, whether it has a
\*                __name__ and the name
\*   has_name     hasattr(annotation, "__name__"), and the name
\*   text         str(annotation)
Annotation(present, has_origin, has_args, args, has_name, name, text) ==
    [present |-> present, has_origin |-> has_origin, has_args |-> has_args,
     args |-> args, has_name |-> has_name, name |-> name, text |-> text]

\* inspect.Parameter.empty: the parameter is not annotated
NoAnnotation == Annotation(FALSE, FALSE, FALSE, <<>>, FALSE, "", "")

\* an argument of a generic annotation: a class has a __name__; a text, a
\* forward reference and the ellipsis have none
TypeArg(has_name, name) == [has_name |-> has_name, name |-> name]

\* the annotations of activity parameters:
\*   x: str               a class
\*   x: int | None        a union: no __origin__, no __name__
\*   x: Parameter[str]    a generic alias whose first argument is a class
\*   x: List              a bare typing alias: __origin__ but no __args__
\*   x: Literal["a"]      a generic alias whose first argument is a text (as
\*                        are Optional["Foo"] and Callable[..., int]: a
\*                        forward reference, the ellipsis)
\*   x: Tuple[()]         a generic alias with no argument
Annotations ==
    { NoAnnotation,
      Annotation(TRUE, FALSE, FALSE, <<>>, TRUE, "str", "<class 'str'>"),
      Annotation(TRUE, FALSE, TRUE, << TypeArg(TRUE, "int"), TypeArg(TRUE, "NoneType") >>,
                 FALSE, "", "int | None"),
      Annotation(TRUE, TRUE, TRUE, << TypeArg(TRUE, "str") >>, FALSE, "",
                 "twiddle_dsl.parameter.Parameter[str]"),
      Annotation(TRUE, TRUE, FALSE, <<>>, TRUE, "List", "typing.List"),
      Annotation(TRUE, TRUE, TRUE, << TypeArg(FALSE, "") >>, FALSE, "",
                 "typing.Literal['a']"),
      Annotation(TRUE, TRUE, TRUE, <<>>, FALSE, "", "typing.Tuple[()]") }

\* inspect.Parameter: name, kind, default ("empty": inspect.Parameter.empty,
\* "Parameter": an instance of twiddle_dsl.Parameter, the descriptor, "plain":
\* anything else) and annotation.  The Validator and the generators read no
\* parameter annotation: these parameters carry none
Params ==
    [name : ParamNames, kind : {"POSITIONAL_OR_KEYWORD", "KEYWORD_ONLY"},
     default : {"empty", "plain"}, descriptor : {NoDescriptor},
     annotation : {NoAnnotation}]
    \cup [name : ParamNames, kind : {"POSITIONAL_OR_KEYWORD"},
          default : {"Parameter"}, descriptor : Descriptors,
          annotation : {NoAnnotation}]
    \cup [name : ParamNames, kind : {"VAR_POSITIONAL", "VAR_KEYWORD"},
          default : {"empty"}, descriptor : {NoDescriptor},
          annotation : {NoAnnotation}]

\* the parameters the Extractor is given besides: annotated in every way, with
\* every kind of default, under a special name or another
AnnotatedParams ==
    [name : {"input_data", "x", "y"}, kind : {"POSITIONAL_OR_KEYWORD"},
     default : {"empty", "plain"}, descriptor : {NoDescriptor},
     annotation : Annotations]
    \cup [name : {"input_data", "x", "y"}, kind : {"POSITIONAL_OR_KEYWORD"},
          default : {"Parameter"},
          descriptor : {ParameterDescriptor("L", TRUE, FALSE)},
          annotation : Annotations]

\* the place of a parameter kind in a def statement
KindRank(kind) ==
    CASE kind = "POSITIONAL_OR_KEYWORD" -> 1
      [] kind = "VAR_POSITIONAL" -> 2
      [] kind = "KEYWORD_ONLY" -> 3
      [] kind = "VAR_KEYWORD" -> 4

\* the signatures a def statement can have: parameter names are distinct, the
\* kinds come in order, there is at most one variadic parameter of each kind,
\* and no positional parameter without a default follows one with a default
DefStatement(sig) ==
    \A i, j \in DOMAIN sig :
       i < j =>
         /\ sig[i].name # sig[j].name
         /\ KindRank(sig[i].kind) <= KindRank(sig[j].kind)
         /\ sig[i].kind \in {"VAR_POSITIONAL", "VAR_KEYWORD"}
               => sig[i].kind # sig[j].kind
         /\ (sig[i].kind = "POSITIONAL_OR_KEYWORD"
             /\ sig[j].kind = "POSITIONAL_OR_KEYWORD"
             /\ sig[i].default # "empty") => sig[j].default # "empty"

Signatures ==
    { sig \in UNION { [1..n -> Params] : n \in 0..MaxParams } :
        DefStatement(sig) }

\* the signatures with annotated parameters
AnnotatedSignatures ==
    { sig \in UNION { [1..n -> AnnotatedParams] : n \in 0..MaxParams } :
        DefStatement(sig) }

RunStates == {"absent", "callable", "not_callable"}

\* Text that the code transforms is a sequence of characters.
Chars == {"A", "b", " ", "-", "_"}

\* str.lower()
lower(text) == [i \in DOMAIN text |-> IF text[i] = "A" THEN "a" ELSE text[i]]

\* str.replace(old, new) for a one-character old and new
replace(text, old, new) ==
    [i \in DOMAIN text |-> IF text[i] = old THEN new ELSE text[i]]

\* an optional argument: None, or a text
None == [given |-> FALSE, value |-> <<>>]
Some(text) == [given |-> TRUE, value |-> text]

\* bool(x) for an optional text: None and "" are false
truthy(opt) == opt.given /\ opt.value # <<>>

\* an object without decorator metadata
NoMeta == [kind |-> "none"]

\* activity.decorator, lines 59-67: the record stored as _twiddle_activity
activity_metadata(name, function_name, is_async) ==
    [kind |-> "activity", name |-> name, description |-> "",
     category |-> "Custom", icon |-> "code", tags |-> <<>>,
     function_name |-> function_name, is_async |-> is_async]

\* workflow.decorator, lines 54-67: the record stored as _twiddle_workflow
workflow_metadata(name, task_queue, dag_id, class_name) ==
    LET snake_name == replace(replace(lower(name), " ", "_"), "-", "_")
        queue == IF truthy(task_queue) THEN task_queue.value ELSE snake_name
        airflow_dag_id == IF truthy(dag_id) THEN dag_id.value ELSE snake_name
    IN  [kind |-> "workflow", name |-> name, description |-> "",
         version |-> "1.0.0", task_queue |-> queue, dag_id |-> airflow_dag_id,
         schedule |-> None, class_name |-> class_name]

\* what inspect.signature(obj) raises: nothing; ValueError for a
\* functools.partial with too many arguments; TypeError for an object whose
\* __signature__ attribute is no Signature, and for an object that is not
\* callable
NoSignatureError == [exception |-> "none", message |-> ""]
IncorrectArguments ==
    [exception |-> "ValueError", message |-> "partial object has incorrect arguments"]
InvalidSignatureAttribute ==
    [exception |-> "TypeError",
     message |-> "unexpected object in __signature__ attribute"]
NotCallable ==
    [exception |-> "TypeError", message |-> "is not a callable object"]

SignatureErrors == {IncorrectArguments, InvalidSignatureAttribute}

\* the display name of the classes whose name does not matter
DisplayName == << "A", " ", "b" >>

Function(id, name, decorated, is_async, params, has_return) ==
    [id |-> id, kind |-> "function", name |-> name,
     activity_decorated |-> decorated, workflow_decorated |-> FALSE,
     base_workflow |-> FALSE, is_async |-> is_async, has_name |-> TRUE,
     has_signature |-> TRUE, signature_raises |-> NoSignatureError,
     params |-> params, has_return |-> has_return, run |-> "absent",
     meta |-> IF decorated THEN activity_metadata(name, name, is_async)
              ELSE NoMeta]

\* a callable that is no function and whose signature cannot be introspected:
\* a functools.partial with too many arguments, a callable object whose
\* __signature__ is no Signature.  Such an object has a __name__ only when one
\* was set on it
OpaqueCallable(id, name, has_name, signature_raises, decorated, is_async, has_return) ==
    [id |-> id, kind |-> "callable", name |-> name,
     activity_decorated |-> decorated, workflow_decorated |-> FALSE,
     base_workflow |-> FALSE, is_async |-> is_async, has_name |-> has_name,
     has_signature |-> FALSE, signature_raises |-> signature_raises,
     params |-> <<>>, has_return |-> has_return, run |-> "absent",
     meta |-> IF decorated THEN activity_metadata(name, name, is_async)
              ELSE NoMeta]

\* a class; the metadata an undecorated subclass of a workflow class shows is
\* the record of its base class
Class(id, name, decorated, base_workflow, run) ==
    [id |-> id, kind |-> "class", name |-> name,
     activity_decorated |-> FALSE, workflow_decorated |-> decorated,
     base_workflow |-> base_workflow, is_async |-> FALSE, has_name |-> TRUE,
     has_signature |-> TRUE, signature_raises |-> NoSignatureError,
     params |-> <<>>, has_return |-> FALSE, run |-> run,
     meta |-> IF decorated
              THEN workflow_metadata(DisplayName, None, None, name)
              ELSE IF base_workflow
              THEN workflow_metadata(DisplayName, None, None, "Base")
              ELSE NoMeta]

\* an object that is neither function, class nor callable: a number, a text,
\* an imported module; of these a module has a __name__
Other(id, name, has_name) ==
    [id |-> id, kind |-> "other", name |-> name,
     activity_decorated |-> FALSE, workflow_decorated |-> FALSE,
     base_workflow |-> FALSE, is_async |-> FALSE, has_name |-> has_name,
     has_signature |-> FALSE, signature_raises |-> NotCallable,
     params |-> <<>>, has_return |-> FALSE, run |-> "absent", meta |-> NoMeta]

\* @workflow(name, task_queue=..., dag_id=...) applied to a class
workflow(name, task_queue, dag_id, cls) ==
    [cls EXCEPT !.workflow_decorated = TRUE,
                !.meta = workflow_metadata(name, task_queue, dag_id, cls.name)]

\* hasattr(obj, "_twiddle_activity"): the decorator stores the record on the
\* object itself
hasattr_twiddle_activity(obj) == obj.activity_decorated

\* hasattr(obj, "_twiddle_workflow"): attribute lookup on a class also finds
\* the record stored on a base class
hasattr_twiddle_workflow(obj) ==
    obj.workflow_decorated \/ (obj.kind = "class" /\ obj.base_workflow)

isfunction(obj) == obj.kind = "function"
isclass(obj) == obj.kind = "class"

-----------------------------------------------------------------------------
(* Validator.                                                              *)

Targets == {"temporal", "airflow"}

LintError(rule_id, severity, message, location) ==
    [rule_id |-> rule_id, severity |-> severity, message |-> message,
     location |-> location]

\* AsyncCheck with the "must be async" rule applied whatever the target
AsyncCheck_any_target(func, target) ==
    IF ~func.is_async
    THEN << LintError("TWD002", "error",
              "Activity function must be async def for Temporal", func.name) >>
    ELSE IF target = "airflow"
    THEN << LintError("TWD010", "warning",
              "Airflow tasks typically use sync functions (async is experimental)",
              func.name) >>
    ELSE <<>>

\* lines 64-88: the target-specific async check
AsyncCheck(func, target) ==
    IF target = "temporal"
    THEN IF ~func.is_async
         THEN << LintError("TWD002", "error",
                   "Activity function must be async def for Temporal",
                   func.name) >>
         ELSE <<>>
    ELSE IF target = "airflow"
    THEN IF func.is_async
         THEN << LintError("TWD010", "warning",
                   "Airflow tasks typically use sync functions (async is experimental)",
                   func.name) >>
         ELSE <<>>
    ELSE <<>>

\* the signature checks run on an empty parameter list when inspect.signature
\* raises, instead of being skipped
SignatureChecks_on_empty_signature(func, target) ==
    LET params == IF func.has_signature THEN func.params ELSE <<>>
    IN  (IF \A i \in DOMAIN params : params[i].name # "input_data"
         THEN << LintError("TWD003", "warning",
                   "Activity should accept input_data parameter", func.name) >>
         ELSE <<>>)
        \o
        (IF target = "airflow"
            /\ ~ \E i \in DOMAIN params : params[i].kind = "VAR_KEYWORD"
         THEN << LintError("TWD011", "info",
                   "Airflow tasks should accept **kwargs for task context",
                   func.name) >>
         ELSE <<>>)

\* lines 90-121: TWD003 and TWD011, both skipped when inspect.signature raises
SignatureChecks(func, target) ==
    IF ~func.has_signature THEN <<>>
    ELSE
      (IF \A i \in DOMAIN func.params : func.params[i].name # "input_data"
       THEN << LintError("TWD003", "warning",
                 "Activity should accept input_data parameter", func.name) >>
       ELSE <<>>)
      \o
      (IF target = "airflow"
          /\ ~ \E i \in DOMAIN func.params : func.params[i].kind = "VAR_KEYWORD"
       THEN << LintError("TWD011", "info",
                 "Airflow tasks should accept **kwargs for task context",
                 func.name) >>
       ELSE <<>>)

\* lines 123-133: TWD004
ReturnCheck(func) ==
    IF ~func.has_return
    THEN << LintError("TWD004", "warning",
              "Activity should have return type annotation (-> Dict[str, Any])",
              func.name) >>
    ELSE <<>>

\* the loop over the parameters without the isinstance(param.default, Parameter)
\* test of line 147: every default is reported
RECURSIVE ParameterLoop_any_default(_, _)
ParameterLoop_any_default(func, i) ==
    IF i > Len(func.params) THEN <<>>
    ELSE LET param == func.params[i]
             here ==
               IF param.name \in {"self", "cls", "input_data"} THEN <<>>
               ELSE IF param.kind = "VAR_KEYWORD" THEN <<>>
               ELSE IF param.default # "empty"
               THEN << LintError("TWD007", "info",
                         "Parameter \"" \o param.name
                             \o "\" should use Parameter() class for UI metadata",
                         func.name) >>
               ELSE <<>>
         IN  here \o ParameterLoop_any_default(func, i + 1)

\* lines 141-155: the loop over the parameters, from parameter i on
RECURSIVE ParameterLoop(_, _)
ParameterLoop(func, i) ==
    IF i > Len(func.params) THEN <<>>
    ELSE LET param == func.params[i]
             here ==
               IF param.name \in {"self", "cls", "input_data"} THEN <<>>
               ELSE IF param.kind = "VAR_KEYWORD" THEN <<>>
               ELSE IF param.default # "empty" /\ param.default # "Parameter"
               THEN << LintError("TWD007", "info",
                         "Parameter \"" \o param.name
                             \o "\" should use Parameter() class for UI metadata",
                         func.name) >>
               ELSE <<>>
         IN  here \o ParameterLoop(func, i + 1)

\* lines 135-157: TWD007, skipped when inspect.signature raises (a decorated
\* candidate has imported twiddle_dsl, so the import of line 138 succeeds)
ParameterChecks(func) ==
    IF ~func.has_signature THEN <<>> ELSE ParameterLoop(func, 1)

\* validate_activity returning as soon as the async check reports a finding
validate_activity_stops_at_async(func, target) ==
    IF ~hasattr_twiddle_activity(func)
    THEN << LintError("TWD001", "error",
              "Activity must have @activity decorator", func.name) >>
    ELSE IF AsyncCheck(func, target) # <<>>
    THEN AsyncCheck(func, target)
    ELSE SignatureChecks(func, target) \o ReturnCheck(func)
           \o ParameterChecks(func)

\* validate_activity without the early return of line 62
validate_activity_no_early_return(func, target) ==
    (IF ~hasattr_twiddle_activity(func)
     THEN << LintError("TWD001", "error",
               "Activity must have @activity decorator", func.name) >>
     ELSE <<>>)
    \o AsyncCheck(func, target) \o SignatureChecks(func, target)
    \o ReturnCheck(func) \o ParameterChecks(func)

\* validate_activity with its findings ordered by severity: the errors, then
\* the warnings, then the informational ones
validate_activity_by_severity(func, target) ==
    IF ~hasattr_twiddle_activity(func)
    THEN << LintError("TWD001", "error",
              "Activity must have @activity decorator", func.name) >>
    ELSE LET found == AsyncCheck(func, target) \o SignatureChecks(func, target)
                        \o ReturnCheck(func) \o ParameterChecks(func)
             IsError(e) == e.severity = "error"
             IsWarning(e) == e.severity = "warning"
             IsInfo(e) == e.severity = "info"
         IN  SelectSeq(found, IsError) \o SelectSeq(found, IsWarning)
               \o SelectSeq(found, IsInfo)

validate_activity(func, target) ==
    IF ~hasattr_twiddle_activity(func)
    THEN << LintError("TWD001", "error",
              "Activity must have @activity decorator", func.name) >>
    ELSE AsyncCheck(func, target) \o SignatureChecks(func, target)
           \o ReturnCheck(func) \o ParameterChecks(func)

\* line 193 testing only that the attribute exists
lacks_run_attribute(cls) == cls.run = "absent"

\* line 193: not hasattr(cls, "run") or not callable(getattr(cls, "run", None))
lacks_run(cls) == cls.run = "absent" \/ cls.run # "callable"

validate_workflow(cls, target) ==
    IF ~hasattr_twiddle_workflow(cls)
    THEN << LintError("TWD005", "error",
              "Workflow class must have @workflow decorator", cls.name) >>
    ELSE IF lacks_run(cls)
    THEN << LintError("TWD006", "error",
              "Workflow must have a run() method", cls.name) >>
    ELSE <<>>

-----------------------------------------------------------------------------
(* Discovery.  A module is the set of objects its source file defines      *)
(* (defs, by id) and its namespace: the bindings name -> object in the     *)
(* order inspect.getmembers enumerates them (sorted by name).              *)

\* lines 66-70: the loop over inspect.getmembers(module, inspect.isfunction),
\* from member i on
RECURSIVE activities_from(_, _)
activities_from(members, i) ==
    IF i > Len(members) THEN <<>>
    ELSE (IF isfunction(members[i].obj) /\ hasattr_twiddle_activity(members[i].obj)
          THEN << members[i].obj >> ELSE <<>>)
           \o activities_from(members, i + 1)

discover_activities(module) == activities_from(module.members, 1)

\* lines 83-87: the loop over inspect.getmembers(module, inspect.isclass),
\* from member i on
RECURSIVE workflows_from(_, _)
workflows_from(members, i) ==
    IF i > Len(members) THEN <<>>
    ELSE (IF isclass(members[i].obj) /\ hasattr_twiddle_workflow(members[i].obj)
          THEN << members[i].obj >> ELSE <<>>)
           \o workflows_from(members, i + 1)

discover_workflows(module) == workflows_from(module.members, 1)

EmptyModule == [defs |-> {}, members |-> <<>>]

\* the files a single load is tried on
LoaderFiles ==
    [path : Paths, exists : BOOLEAN, body : Bodies, members : {EmptyModule}]

NoLoad ==
    [file |-> [path |-> NoPath, exists |-> FALSE, body |-> BodyOk,
               members |-> EmptyModule],
     before |-> <<>>,
     result |-> [raised |-> "none", message |-> "",
                 cause |-> "none", registry |-> <<>>, module |-> NoModule,
                 name |-> module_name(NoPath, 0), executed |-> FALSE]]

NoScan == [pc |-> "idle"]
NoVal == [pc |-> "idle"]
NoDisc == [pc |-> "idle"]
NoLint == [pc |-> "idle"]
NoRep == [pc |-> "idle"]
NoExt == [pc |-> "idle"]
NoGen == [pc |-> "idle"]
NoConv == [pc |-> "idle"]
\* no init run yet, and nothing under the output directory
NoProj == [pc |-> "idle", fs |-> <<>>]
NoExec == [pc |-> "idle"]
NoStore == [pc |-> "idle"]

Init ==
    /\ registry = <<>>
    /\ nloads = 0
    /\ last = NoLoad
    /\ scan = NoScan
    /\ val = NoVal
    /\ disc = NoDisc
    /\ lint = NoLint
    /\ rep = NoRep
    /\ ext = NoExt
    /\ gen = NoGen
    /\ conv = NoConv
    /\ proj = NoProj
    /\ exec = NoExec
    /\ store = NoStore

-----------------------------------------------------------------------------
(* The Module Loader called repeatedly in one process.                     *)

Load(f, addr) ==
    /\ nloads < MaxLoads
    /\ LET r == load_module_from_path(registry, f, addr, nloads + 1)
       IN  /\ registry' = r.registry
           /\ last' = [file |-> f, before |-> registry, result |-> r]
    /\ nloads' = nloads + 1
    /\ UNCHANGED <<scan, val, disc, lint, rep, ext, gen, conv, proj, exec, store>>

NextLoader == \E f \in LoaderFiles, addr \in Addrs : Load(f, addr)

SpecLoader == Init /\ [][NextLoader]_vars

\* the latest call executed the module body and the body raised
BodyFailed == last.result.executed /\ last.file.body.raises # "none"

(* C2: every exception, of whatever kind, raised while executing the       *)
(* module body reaches the caller as an ImportError whose message wraps    *)
(* the original message; nothing else escapes from the execution step.     *)
C2_AnyBodyExceptionBecomesImportError ==
    BodyFailed =>
        /\ last.result.raised = "ImportError"
        /\ last.result.message =
              "Error loading module " \o str(last.file.path) \o ": "
                  \o last.file.body.msg

(* C3: after every load whose module body failed, the registry holds no    *)
(* entry for the name that load registered.                                *)
C3_FailedLoadLeavesNoRegistration ==
    BodyFailed => last.result.name \notin DOMAIN registry

(* C4: every load registers its module under a name no registered module   *)
(* uses, so every module registered before a load is still registered,     *)
(* under the same name, after it.                                          *)
C4_LoadNeverTouchesEarlierRegistration ==
    last.result.executed =>
        /\ last.result.name \notin DOMAIN last.before
        /\ \A n \in DOMAIN last.before :
              n \in DOMAIN registry /\ registry[n] = last.before[n]

(* C17: a load of a path that does not exist raises FileNotFoundError,      *)
(* whatever its suffix; a load of an existing path whose suffix is not .py *)
(* raises ValueError; in both cases the body of the file is not executed   *)
(* and the registry is what it was before the call.                        *)
C17_PathChecksComeFirstAndLeaveNoTrace ==
    nloads > 0 =>
        /\ ~last.file.exists =>
              /\ last.result.raised = "FileNotFoundError"
              /\ last.result.message = "Module not found: " \o str(last.file.path)
              /\ ~last.result.executed
              /\ registry = last.before
        /\ (last.file.exists /\ last.file.path.suffix # ".py") =>
              /\ last.result.raised = "ValueError"
              /\ last.result.message = "Not a Python file: " \o str(last.file.path)
              /\ ~last.result.executed
              /\ registry = last.before

\* a load of a missing path without the .py suffix, made after a load that
\* registered a module
C17_Witness ==
    /\ nloads > 1
    /\ ~last.file.exists
    /\ last.file.path.suffix = ".txt"
    /\ last.result.raised = "FileNotFoundError"
    /\ DOMAIN registry # {}

-----------------------------------------------------------------------------
(* The Validator called on one candidate and one target.                   *)

ActivityCandidates ==
    { Function(1, "f", d, a, sig, r) :
        d \in BOOLEAN, a \in BOOLEAN, sig \in Signatures, r \in BOOLEAN }
    \cup { c \in { OpaqueCallable(1, "f", n, e, d, a, r) :
                      n \in BOOLEAN, e \in SignatureErrors, d \in BOOLEAN,
                      a \in BOOLEAN, r \in BOOLEAN } :
               \* the decorator reads func.__name__ (activity.py line 65)
               c.activity_decorated => c.has_name }

WorkflowCandidates ==
    { Class(1, "W", d, b, run) :
        d \in BOOLEAN, b \in BOOLEAN, run \in RunStates }

ValidateActivity(func, target) ==
    /\ val.pc = "idle"
    /\ val' = [pc |-> "validate_activity", cand |-> func, target |-> target,
               findings |-> validate_activity(func, target)]
    /\ UNCHANGED <<registry, nloads, last, scan, disc, lint, rep, ext, gen, conv, proj, exec, store>>

ValidateWorkflow(cls, target) ==
    /\ val.pc = "idle"
    /\ val' = [pc |-> "validate_workflow", cand |-> cls, target |-> target,
               findings |-> validate_workflow(cls, target)]
    /\ UNCHANGED <<registry, nloads, last, scan, disc, lint, rep, ext, gen, conv, proj, exec, store>>

NextValidator ==
    \/ /\ val.pc = "idle"
       /\ \E func \in ActivityCandidates, target \in Targets :
             ValidateActivity(func, target)
    \/ /\ val.pc = "idle"
       /\ \E cls \in WorkflowCandidates, target \in Targets :
             ValidateWorkflow(cls, target)

SpecValidator == Init /\ [][NextValidator]_vars

\* the findings of the latest validation with the given code and severity
Found(rule_id, severity) ==
    { i \in DOMAIN val.findings :
        val.findings[i].rule_id = rule_id /\ val.findings[i].severity = severity }

Holds(cond) == IF cond THEN 1 ELSE 0

\* the parameters the structured-parameter rule of the table reports
Unstructured(func) ==
    { i \in DOMAIN func.params :
        /\ func.params[i].name \notin {"self", "cls", "input_data"}
        /\ func.params[i].kind # "VAR_KEYWORD"
        /\ func.params[i].default = "plain" }

ValidatedActivity ==
    /\ val.pc = "validate_activity"
    /\ val.cand.kind = "function"
    /\ val.cand.activity_decorated

(* C6: for a decorated function and either target, validate_activity       *)
(* returns exactly the findings of the rule table, each with the table's   *)
(* severity and each decided by its own condition alone: TWD002 error iff  *)
(* temporal and not async; TWD010 warning iff airflow and async; TWD003    *)
(* warning iff no parameter is named input_data; TWD011 info iff airflow   *)
(* and no variadic-keyword parameter; TWD004 warning iff no return         *)
(* annotation; TWD007 info once per parameter other than self, cls,        *)
(* input_data and the variadic-keyword one whose default is present and is *)
(* no Parameter instance.                                                  *)
C6_FindingsAreExactlyTheRuleTable ==
    ValidatedActivity =>
      LET func == val.cand
          target == val.target
      IN  /\ Cardinality(Found("TWD002", "error")) =
                Holds(target = "temporal" /\ ~func.is_async)
          /\ Cardinality(Found("TWD010", "warning")) =
                Holds(target = "airflow" /\ func.is_async)
          /\ Cardinality(Found("TWD003", "warning")) =
                Holds("input_data" \notin
                        { func.params[i].name : i \in DOMAIN func.params })
          /\ Cardinality(Found("TWD011", "info")) =
                Holds(target = "airflow"
                      /\ "VAR_KEYWORD" \notin
                           { func.params[i].kind : i \in DOMAIN func.params })
          /\ Cardinality(Found("TWD004", "warning")) = Holds(~func.has_return)
          /\ Cardinality(Found("TWD007", "info")) =
                Cardinality(Unstructured(func))
          /\ \A p \in Unstructured(func) :
                Cardinality({ i \in Found("TWD007", "info") :
                    val.findings[i].message =
                      "Parameter \"" \o func.params[p].name
                        \o "\" should use Parameter() class for UI metadata" }) = 1
          /\ Len(val.findings) =
                Cardinality(Found("TWD002", "error"))
                + Cardinality(Found("TWD010", "warning"))
                + Cardinality(Found("TWD003", "warning"))
                + Cardinality(Found("TWD011", "info"))
                + Cardinality(Found("TWD004", "warning"))
                + Cardinality(Found("TWD007", "info"))

\* an async function without input_data, **kwargs and return annotation and
\* with one plain default, validated for airflow: five rules fire together
C6_Witness ==
    /\ ValidatedActivity
    /\ val.target = "airflow"
    /\ val.cand.is_async
    /\ Cardinality(Unstructured(val.cand)) = 1
    /\ Len(val.findings) = 5

(* C7: a function without activity metadata gets exactly one finding,      *)
(* TWD001 with severity error, and a class without workflow metadata       *)
(* exactly one finding, TWD005 with severity error, for either target and  *)
(* whatever other defects the candidate has.                               *)
C7_MissingDecoratorShortCircuits ==
    /\ (val.pc = "validate_activity" /\ ~val.cand.activity_decorated) =>
          /\ Len(val.findings) = 1
          /\ val.findings[1].rule_id = "TWD001"
          /\ val.findings[1].severity = "error"
    /\ (val.pc = "validate_workflow" /\ ~val.cand.workflow_decorated
            /\ ~val.cand.base_workflow) =>
          /\ Len(val.findings) = 1
          /\ val.findings[1].rule_id = "TWD005"
          /\ val.findings[1].severity = "error"

\* an undecorated synchronous function without input_data and return
\* annotation, validated for temporal
C7_Witness ==
    /\ val.pc = "validate_activity"
    /\ val.target = "temporal"
    /\ ~val.cand.activity_decorated
    /\ ~val.cand.is_async
    /\ val.cand.kind = "function" /\ val.cand.params = <<>>
    /\ ~val.cand.has_return
    /\ Len(val.findings) = 1

(* C8: a decorated synchronous function validated for temporal always gets *)
(* TWD002 with severity error; validated for airflow it gets no TWD002 and *)
(* no error-severity finding; a decorated async function validated for     *)
(* airflow gets TWD010 as a warning and no error-severity finding.         *)
C8_AsyncRuleDependsOnTarget ==
    (val.pc = "validate_activity" /\ val.cand.activity_decorated) =>
      /\ (val.target = "temporal" /\ ~val.cand.is_async) =>
            Found("TWD002", "error") # {}
      /\ val.target = "airflow" =>
            /\ \A i \in DOMAIN val.findings :
                  /\ val.findings[i].rule_id # "TWD002"
                  /\ val.findings[i].severity # "error"
            /\ val.cand.is_async => Found("TWD010", "warning") # {}
            /\ ~val.cand.is_async =>
                  \A i \in DOMAIN val.findings :
                     val.findings[i].rule_id # "TWD010"

\* a decorated synchronous function validated for airflow, with findings
C8_Witness ==
    /\ val.pc = "validate_activity"
    /\ val.cand.activity_decorated
    /\ ~val.cand.is_async
    /\ val.target = "airflow"
    /\ Len(val.findings) >= 2

(* C9: a decorated class without a callable member named run (absent, or   *)
(* present and not callable) gets exactly one finding, TWD006 with         *)
(* severity error; a decorated class with a callable run gets none; for    *)
(* either target.                                                          *)
C9_MissingRunIsTheOnlyWorkflowRule ==
    (val.pc = "validate_workflow" /\ val.cand.workflow_decorated) =>
      /\ val.cand.run # "callable" =>
            /\ Len(val.findings) = 1
            /\ val.findings[1].rule_id = "TWD006"
            /\ val.findings[1].severity = "error"
      /\ val.cand.run = "callable" => val.findings = <<>>

\* a decorated class whose run attribute is present and not callable
C9_Witness ==
    /\ val.pc = "validate_workflow"
    /\ val.cand.workflow_decorated
    /\ val.cand.run = "not_callable"
    /\ val.target = "airflow"
    /\ Len(val.findings) = 1


\* the parameters of the validated function whose default is a descriptor
\* with required = true and a non-null default
RedundantlyRequired ==
    { i \in DOMAIN val.cand.params :
        /\ val.cand.params[i].default = "Parameter"
        /\ val.cand.params[i].descriptor.required
        /\ val.cand.params[i].descriptor.has_default }

\* the parameters whose default is a descriptor with required = false and no
\* default
OptionalWithoutDefault ==
    { i \in DOMAIN val.cand.params :
        /\ val.cand.params[i].default = "Parameter"
        /\ ~val.cand.params[i].descriptor.required
        /\ ~val.cand.params[i].descriptor.has_default }

\* the findings of the latest validation that are about parameter i: the
\* ones whose message names it
FindingsAbout(i) ==
    { k \in DOMAIN val.findings :
        val.findings[k].message =
          "Parameter \"" \o val.cand.params[i].name
             \o "\" should use Parameter() class for UI metadata" }

(* C16 as stated: an activity that uses a descriptor with required = true  *)
(* and a non-null default is flagged for that parameter with a finding     *)
(* that is not of error severity, and with no finding of error severity.   *)
C16_RedundantRequiredGetsAStyleNote ==
    ValidatedActivity =>
      \A i \in RedundantlyRequired :
         /\ \E k \in FindingsAbout(i) : val.findings[k].severity # "error"
         /\ \A k \in FindingsAbout(i) : val.findings[k].severity # "error"

(* C16 amended: both descriptor combinations are stored as given, and an   *)
(* activity that uses either gets no finding at all about that parameter,  *)
(* of any severity; its only possible error-severity finding is TWD002,    *)
(* which the target and the function being synchronous decide.             *)
C16_DescriptorCombinationsAreNeverFlagged ==
    ValidatedActivity =>
      /\ \A i \in RedundantlyRequired \cup OptionalWithoutDefault :
            FindingsAbout(i) = {}
      /\ (RedundantlyRequired \cup OptionalWithoutDefault # {}) =>
            \A k \in DOMAIN val.findings :
               val.findings[k].severity = "error" =>
                 /\ val.findings[k].rule_id = "TWD002"
                 /\ val.target = "temporal" /\ ~val.cand.is_async

\* a synchronous activity with a required descriptor that has a default and
\* a plain default beside it, validated for temporal
C16_Witness ==
    /\ ValidatedActivity
    /\ val.target = "temporal"
    /\ ~val.cand.is_async
    /\ Len(val.cand.params) = 2
    /\ 1 \in RedundantlyRequired
    /\ val.cand.params[2].default = "plain"
    /\ Cardinality(Found("TWD007", "info")) = 1

-----------------------------------------------------------------------------
(* Discovery called on one loaded module.                                  *)

\* members of one module namespace
MaxMembers == 3

\* the objects a module namespace may hold, by identity
DiscObjects ==
    << Function(1, "act_one", TRUE, TRUE, <<>>, TRUE),
       Function(2, "helper", FALSE, FALSE, <<>>, FALSE),
       Class(3, "Flow", TRUE, FALSE, "callable"),
       Class(4, "Plain", FALSE, FALSE, "absent"),
       Class(5, "SubFlow", FALSE, TRUE, "callable"),
       Function(6, "act_two", TRUE, FALSE, <<>>, FALSE) >>

ObjIds == DOMAIN DiscObjects

\* attribute names in the order inspect.getmembers sorts them
BindingNames == << "a", "b", "c", "d", "e" >>

Namespace(ids) ==
    [i \in DOMAIN ids |-> [name |-> BindingNames[i], obj |-> DiscObjects[ids[i]]]]

\* a module: the namespace it ends with and, of the objects bound in it, those
\* its own file defines (an object bound but not defined here was imported; one
\* object may be bound to several names)
Modules ==
    UNION { { [defs |-> d, members |-> Namespace(ids)] :
                d \in SUBSET { ids[i] : i \in DOMAIN ids } } :
            ids \in UNION { [1..n -> ObjIds] : n \in 0..MaxMembers } }

DiscoverActivities(module) ==
    /\ disc.pc = "idle"
    /\ disc' = [pc |-> "discover_activities", module |-> module,
                result |-> discover_activities(module)]
    /\ UNCHANGED <<registry, nloads, last, scan, val, lint, rep, ext, gen, conv, proj, exec, store>>

DiscoverWorkflows(module) ==
    /\ disc.pc = "idle"
    /\ disc' = [pc |-> "discover_workflows", module |-> module,
                result |-> discover_workflows(module)]
    /\ UNCHANGED <<registry, nloads, last, scan, val, lint, rep, ext, gen, conv, proj, exec, store>>

NextDiscovery ==
    \/ /\ disc.pc = "idle"
       /\ \E module \in Modules : DiscoverActivities(module)
    \/ /\ disc.pc = "idle"
       /\ \E module \in Modules : DiscoverWorkflows(module)

SpecDiscovery == Init /\ [][NextDiscovery]_vars

\* the functions the file of the module defines and decorates as activities
DefinedActivities(module) ==
    { id \in module.defs :
        isfunction(DiscObjects[id]) /\ DiscObjects[id].activity_decorated }

\* the classes the file of the module defines and decorates as workflows
DefinedWorkflows(module) ==
    { id \in module.defs :
        isclass(DiscObjects[id]) /\ DiscObjects[id].workflow_decorated }

(* C5: on a module whose file defines exactly N functions decorated as     *)
(* activities and M classes decorated as workflows, discover_activities    *)
(* returns exactly N functions, discover_workflows exactly M classes, and  *)
(* nothing returned is an object that was not itself decorated.            *)
C5_DiscoveryReturnsExactlyTheDecorated ==
    /\ disc.pc = "discover_activities" =>
          /\ Len(disc.result) = Cardinality(DefinedActivities(disc.module))
          /\ \A i \in DOMAIN disc.result :
                isfunction(disc.result[i]) /\ disc.result[i].activity_decorated
    /\ disc.pc = "discover_workflows" =>
          /\ Len(disc.result) = Cardinality(DefinedWorkflows(disc.module))
          /\ \A i \in DOMAIN disc.result :
                isclass(disc.result[i]) /\ disc.result[i].workflow_decorated

-----------------------------------------------------------------------------
(* Directory discovery: discover_all_in_directory(directory).              *)

\* the paths of a scanned tree: two files with the same stem in different
\* directories, a hidden file, a file of a cache directory and a file that
\* is no Python source
ScanPaths ==
    { [dir |-> "d1", stem |-> "a", suffix |-> ".py"],
      [dir |-> "d1", stem |-> "b", suffix |-> ".py"],
      [dir |-> "d1/sub", stem |-> "a", suffix |-> ".py"],
      [dir |-> "d1", stem |-> ".hidden", suffix |-> ".py"],
      [dir |-> "d1/__pycache__", stem |-> "a", suffix |-> ".py"],
      [dir |-> "d1", stem |-> "notes", suffix |-> ".txt"] }

\* "__pycache__" in str(py_file)
in_pycache(path) == path.dir = "d1/__pycache__"

\* py_file.name.startswith(".")
is_hidden(path) == path.stem = ".hidden"

\* a module with one activity function and a plain helper function
ModuleA == [defs |-> {1, 2}, members |-> Namespace(<<1, 2>>)]
\* a module with one workflow class and one activity function
ModuleB == [defs |-> {3, 6}, members |-> Namespace(<<3, 6>>)]

\* what a file of the tree holds: its body and the namespace the body builds
Contents ==
    { [body |-> BodyOk, members |-> ModuleA],
      [body |-> BodyOk, members |-> ModuleB],
      [body |-> [raises |-> "SyntaxError", msg |-> "invalid syntax", code |-> 0],
       members |-> EmptyModule],
      [body |-> [raises |-> "SystemExit", msg |-> "0", code |-> 0],
       members |-> EmptyModule],
      [body |-> [raises |-> "SystemExit", msg |-> "3", code |-> 3],
       members |-> EmptyModule] }

\* a directory tree: the files in it, by path
Trees ==
    UNION { [ps -> Contents] :
              ps \in { q \in SUBSET ScanPaths : Cardinality(q) <= MaxFiles } }

FileAt(tree, path) ==
    [path |-> path, exists |-> TRUE, body |-> tree[path].body,
     members |-> tree[path].members]

\* directory.rglob("*.py")
rglob_py(tree) == { path \in DOMAIN tree : path.suffix = ".py" }

\* lines 100-106
ScanStart(tree, is_dir) ==
    /\ scan.pc = "idle"
    /\ scan' = IF ~is_dir
               THEN [pc |-> "raised", is_dir |-> is_dir, tree |-> tree,
                     remaining |-> {}, raised |-> "ValueError",
                     all_activities |-> <<>>, all_workflows |-> <<>>,
                     errors |-> <<>>]
               ELSE [pc |-> "loop", is_dir |-> is_dir, tree |-> tree,
                     remaining |-> rglob_py(tree), raised |-> "none",
                     all_activities |-> <<>>, all_workflows |-> <<>>,
                     errors |-> <<>>]
    /\ UNCHANGED <<registry, nloads, last, val, disc, lint, rep, ext, gen, conv, proj, exec, store>>

\* lines 108-118: one iteration of the loop, on the file rglob yields next
ScanFile(py_file, addr) ==
    /\ scan.pc = "loop"
    /\ py_file \in scan.remaining
    /\ IF in_pycache(py_file) \/ is_hidden(py_file)
       THEN /\ scan' = [scan EXCEPT !.remaining = @ \ {py_file}]
            /\ UNCHANGED <<registry, nloads, last>>
       ELSE LET f == FileAt(scan.tree, py_file)
                r == load_module_from_path(registry, f, addr, nloads + 1)
            IN  /\ registry' = r.registry
                /\ nloads' = nloads + 1
                /\ last' = [file |-> f, before |-> registry, result |-> r]
                /\ scan' =
                     IF r.raised = "none"
                     THEN [scan EXCEPT
                             !.remaining = @ \ {py_file},
                             !.all_activities = @ \o discover_activities(f.members),
                             !.all_workflows = @ \o discover_workflows(f.members)]
                     ELSE IF IsException(r.raised)
                     THEN [scan EXCEPT
                             !.remaining = @ \ {py_file},
                             !.errors = Append(@, [file |-> str(py_file),
                                                   error |-> r.message])]
                     ELSE [scan EXCEPT !.pc = "raised", !.raised = r.raised]
    /\ UNCHANGED <<val, disc, lint, rep, ext, gen, conv, proj, exec, store>>

\* lines 120-124
ScanReturn ==
    /\ scan.pc = "loop"
    /\ scan.remaining = {}
    /\ scan' = [scan EXCEPT !.pc = "returned"]
    /\ UNCHANGED <<registry, nloads, last, val, disc, lint, rep, ext, gen, conv, proj, exec, store>>

NextScan ==
    \/ /\ scan.pc = "idle"
       /\ \E tree \in Trees, is_dir \in BOOLEAN : ScanStart(tree, is_dir)
    \/ \E py_file \in ScanPaths, addr \in Addrs : ScanFile(py_file, addr)
    \/ ScanReturn

SpecScan == Init /\ [][NextScan]_vars

\* the source files of the tree the scan loads
Scanned(tree) ==
    { path \in rglob_py(tree) : ~in_pycache(path) /\ ~is_hidden(path) }

Failing(tree) == { path \in Scanned(tree) : tree[path].body.raises # "none" }

Loading(tree) == { path \in Scanned(tree) : tree[path].body.raises = "none" }

\* how often the object with this id occurs in a sequence of objects
Occurrences(objs, id) == Cardinality({ i \in DOMAIN objs : objs[i].id = id })

RECURSIVE Total(_, _, _)
\* the sum of counts[path][id] over the paths
Total(paths, counts, id) ==
    IF paths = {} THEN 0
    ELSE LET path == CHOOSE q \in paths : TRUE
         IN  counts[path][id] + Total(paths \ {path}, counts, id)

\* the returned candidates are those discovered in the files that loaded, and
\* the error list has exactly one entry per file that failed
ScanResultMatches ==
    LET tree == scan.tree
    IN  /\ Len(scan.errors) = Cardinality(Failing(tree))
        /\ \A path \in Failing(tree) :
              Cardinality({ i \in DOMAIN scan.errors :
                              scan.errors[i].file = str(path) }) = 1
        /\ \A id \in ObjIds :
              LET acts == [path \in Loading(tree) |-> [o \in ObjIds |->
                             Occurrences(discover_activities(tree[path].members), o)]]
                  flows == [path \in Loading(tree) |-> [o \in ObjIds |->
                             Occurrences(discover_workflows(tree[path].members), o)]]
              IN  /\ Occurrences(scan.all_activities, id) = Total(Loading(tree), acts, id)
                  /\ Occurrences(scan.all_workflows, id) = Total(Loading(tree), flows, id)

(* C1: over any directory tree the scan runs to its end: every source file *)
(* whose loading fails adds exactly one (file, error) entry and the scan   *)
(* goes on with the remaining files, and the returned activities and       *)
(* workflows are exactly those discovered in the files that loaded.        *)
C1_BadFileNeverAbortsTheScan ==
    (scan.pc \in {"returned", "raised"} /\ scan.is_dir) =>
        /\ scan.pc = "returned"
        /\ ScanResultMatches

\* a completed scan reports every file that failed and the candidates of the
\* files that loaded
ScanReturnedMatches == scan.pc = "returned" => ScanResultMatches

\* one failing file and two loading files, scanned to the end
ScanOneBadTwoGood ==
    /\ scan.pc = "returned"
    /\ Cardinality(Failing(scan.tree)) = 1
    /\ Cardinality(Loading(scan.tree)) = 2
    /\ Len(scan.errors) = 1

-----------------------------------------------------------------------------
(* Extractor.  An extraction returns the record it built, or raises.  The  *)
(* docstrings the record copies are not part of the model objects; the     *)
(* return annotation is (has_return).                                      *)

\* dict.update(other): the items of other, and the items of d under the other
\* keys
update(d, other) ==
    [k \in DOMAIN d \cup DOMAIN other |->
        IF k \in DOMAIN other THEN other[k] ELSE d[k]]

\* lines 41-51 on the dict param_info: the annotation and type keys the
\* annotation of the parameter adds.  Line 48 reads the __name__ of the first
\* argument of a generic annotation: IndexError when there is no argument,
\* AttributeError when the argument has no __name__
annotation_info(param_info, annotation) ==
    IF ~annotation.present
    THEN [raised |-> "none", message |-> "", param_info |-> param_info]
    ELSE IF ~annotation.has_origin
    THEN [raised |-> "none", message |-> "",
          param_info |->
            update(param_info,
                   [annotation |-> annotation.text,
                    type |-> IF annotation.has_name THEN annotation.name
                             ELSE annotation.text])]
    ELSE IF ~annotation.has_args
    THEN [raised |-> "none", message |-> "",
          param_info |-> update(param_info, [annotation |-> annotation.text])]
    ELSE IF annotation.args = <<>>
    THEN [raised |-> "IndexError", message |-> "tuple index out of range",
          param_info |-> <<>>]
    ELSE IF ~annotation.args[1].has_name
    THEN [raised |-> "AttributeError",
          message |-> "object has no attribute '__name__'",
          param_info |-> <<>>]
    ELSE [raised |-> "none", message |-> "",
          param_info |->
            update(param_info, [annotation |-> annotation.text,
                                type |-> annotation.args[1].name])]

\* lines 54-68 on the dict param_info: the eight fields of a descriptor, the
\* default that is no descriptor, or nothing.  options and validation are not
\* given to the descriptors used
default_info(param_info, param) ==
    IF param.default = "Parameter"
    THEN update(param_info,
           [label |-> param.descriptor.label,
            description |-> param.descriptor.description,
            required |-> param.descriptor.required,
            default |-> IF param.descriptor.has_default
                        THEN "value" ELSE "None",
            template |-> param.descriptor.template,
            secret |-> param.descriptor.secret,
            options |-> "None", validation |-> "None"])
    ELSE IF param.default # "empty"
    THEN update(param_info, [default |-> "plain"])
    ELSE param_info

\* lines 53-70 for one parameter, typed being what lines 41-51 gave: the
\* exception of line 48 leaves the loop; else the default is looked at, the
\* dict is appended and the loop goes on with the parameters after it (rest)
loop_body(typed, param, rest) ==
    IF typed.raised # "none"
    THEN [raised |-> typed.raised, message |-> typed.message,
          parameters |-> <<>>]
    ELSE IF rest.raised # "none" THEN rest
    ELSE [raised |-> "none", message |-> "",
          parameters |-> << default_info(typed.param_info, param) >>
                           \o rest.parameters]

\* lines 31-70: the loop over sig.parameters, from parameter i on: the list of
\* the dicts param_info, or the exception of line 48 on the first parameter
\* whose annotation raises it.  The keys of a dict are the fields of the
\* record
RECURSIVE extract_parameters(_, _)
extract_parameters(params, i) ==
    IF i > Len(params)
    THEN [raised |-> "none", message |-> "", parameters |-> <<>>]
    ELSE IF params[i].name \in {"self", "cls", "input_data"}
    THEN extract_parameters(params, i + 1)
    ELSE loop_body(annotation_info([name |-> params[i].name,
                                    python_name |-> params[i].name],
                                   params[i].annotation),
                   params[i],
                   extract_parameters(params, i + 1))

\* an extraction that raised: nothing is returned
Raised(exception, message) ==
    [raised |-> exception, message |-> message, meta |-> NoMeta]

Returned(meta) == [raised |-> "none", message |-> "", meta |-> meta]

\* extract_activity_metadata building a record from the function itself when
\* the decorator metadata is missing
extract_activity_metadata_lenient(func) ==
    IF ~func.has_signature
    THEN Raised(func.signature_raises.exception, func.signature_raises.message)
    ELSE LET parameters == extract_parameters(func.params, 1)
         IN  IF parameters.raised # "none"
             THEN Raised(parameters.raised, parameters.message)
             ELSE Returned(
                    [kind |-> "activity", name |-> func.name,
                     function_name |-> func.name,
                     parameters |-> parameters.parameters,
                     is_async |-> func.is_async,
                     has_return_type |-> func.has_return])

\* lines 23-81.  The message of line 24 reads func.__name__: on an object
\* without that attribute the f-string raises AttributeError.  Line 27 lets
\* the exception of inspect.signature through, the loop of lines 31-70 the
\* exception of line 48
extract_activity_metadata(func) ==
    IF ~hasattr_twiddle_activity(func)
    THEN IF func.has_name
         THEN Raised("ValueError",
                     "Function " \o func.name \o " is not decorated with @activity")
         ELSE Raised("AttributeError", "object has no attribute '__name__'")
    ELSE IF ~func.has_signature
    THEN Raised(func.signature_raises.exception, func.signature_raises.message)
    ELSE LET parameters == extract_parameters(func.params, 1)
         IN  IF parameters.raised # "none"
             THEN Raised(parameters.raised, parameters.message)
             ELSE Returned(
                    [kind |-> "activity", name |-> func.meta.name,
                     function_name |-> func.meta.function_name,
                     parameters |-> parameters.parameters,
                     is_async |-> func.is_async,
                     has_return_type |-> func.has_return])

extract_workflow_metadata(cls) ==
    IF ~hasattr_twiddle_workflow(cls)
    THEN Raised("ValueError",
                "Class " \o cls.name \o " is not decorated with @workflow")
    ELSE IF cls.run = "not_callable"
    THEN Raised("TypeError", "run is not a callable object")
    ELSE Returned(
           [kind |-> "workflow", name |-> cls.meta.name,
            task_queue |-> cls.meta.task_queue, dag_id |-> cls.meta.dag_id,
            class_name |-> cls.name, has_run |-> (cls.run # "absent")])

\* [extract(c) for c in candidates]: the records, or the first exception
RECURSIVE extract_activities(_)
extract_activities(activities) ==
    IF activities = <<>> THEN [raised |-> "none", message |-> "", metas |-> <<>>]
    ELSE LET first == extract_activity_metadata(Head(activities))
             rest == extract_activities(Tail(activities))
         IN  IF first.raised # "none"
             THEN [raised |-> first.raised, message |-> first.message,
                   metas |-> <<>>]
             ELSE IF rest.raised # "none" THEN rest
             ELSE [raised |-> "none", message |-> "",
                   metas |-> << first.meta >> \o rest.metas]

RECURSIVE extract_workflows(_)
extract_workflows(workflows) ==
    IF workflows = <<>> THEN [raised |-> "none", message |-> "", metas |-> <<>>]
    ELSE LET first == extract_workflow_metadata(Head(workflows))
             rest == extract_workflows(Tail(workflows))
         IN  IF first.raised # "none"
             THEN [raised |-> first.raised, message |-> first.message,
                   metas |-> <<>>]
             ELSE IF rest.raised # "none" THEN rest
             ELSE [raised |-> "none", message |-> "",
                   metas |-> << first.meta >> \o rest.metas]

\* the result of extract_all_metadata
NoRecords == [activities |-> <<>>, workflows |-> <<>>]

extract_all_metadata(activities, workflows) ==
    LET a == extract_activities(activities)
        w == extract_workflows(workflows)
    IN  IF a.raised # "none"
        THEN [raised |-> a.raised, message |-> a.message, result |-> NoRecords]
        ELSE IF w.raised # "none"
        THEN [raised |-> w.raised, message |-> w.message, result |-> NoRecords]
        ELSE [raised |-> "none", message |-> "",
              result |-> [activities |-> a.metas, workflows |-> w.metas]]

(* The Extractor called on one candidate, or on two lists of candidates.   *)

\* candidates in each list of one extract_all_metadata call
MaxCandidates == 2

\* the functions and classes the lists are made of
FunctionPool ==
    { Function(1, "act", TRUE, TRUE, <<>>, TRUE),
      Function(2, "helper", FALSE, FALSE, <<>>, FALSE),
      OpaqueCallable(3, "partial", TRUE, IncorrectArguments, TRUE, FALSE, FALSE),
      OpaqueCallable(8, "bare", FALSE, IncorrectArguments, FALSE, FALSE, FALSE),
      OpaqueCallable(9, "obj", TRUE, InvalidSignatureAttribute, TRUE, FALSE, FALSE),
      Other(10, "math", TRUE),
      \* def mode(x: Literal["a"] = "a")
      Function(11, "mode", TRUE, FALSE,
               << [name |-> "x", kind |-> "POSITIONAL_OR_KEYWORD",
                   default |-> "plain", descriptor |-> NoDescriptor,
                   annotation |-> Annotation(TRUE, TRUE, TRUE,
                                    << TypeArg(FALSE, "") >>, FALSE, "",
                                    "typing.Literal['a']")] >>, TRUE) }

ClassPool ==
    { Class(4, "Flow", TRUE, FALSE, "callable"),
      Class(5, "Plain", FALSE, FALSE, "callable"),
      Class(6, "Broken", TRUE, FALSE, "not_callable"),
      Class(7, "SubFlow", FALSE, TRUE, "absent") }

\* the candidates of extract_activity_metadata: those of the Validator, and
\* decorated functions with annotated parameters
ExtractorCandidates ==
    ActivityCandidates
    \cup { Function(1, "f", TRUE, a, sig, TRUE) :
             a \in BOOLEAN, sig \in AnnotatedSignatures }

ExtractActivity(func) ==
    /\ ext.pc = "idle"
    /\ ext' = [pc |-> "extract_activity_metadata", cand |-> func,
               out |-> extract_activity_metadata(func)]
    /\ UNCHANGED <<registry, nloads, last, scan, val, disc, lint, rep, gen, conv, proj, exec, store>>

ExtractWorkflow(cls) ==
    /\ ext.pc = "idle"
    /\ ext' = [pc |-> "extract_workflow_metadata", cand |-> cls,
               out |-> extract_workflow_metadata(cls)]
    /\ UNCHANGED <<registry, nloads, last, scan, val, disc, lint, rep, gen, conv, proj, exec, store>>

ExtractAll(activities, workflows) ==
    /\ ext.pc = "idle"
    /\ ext' = [pc |-> "extract_all_metadata", activities |-> activities,
               workflows |-> workflows,
               out |-> extract_all_metadata(activities, workflows)]
    /\ UNCHANGED <<registry, nloads, last, scan, val, disc, lint, rep, gen, conv, proj, exec, store>>

NextExtractor ==
    \/ /\ ext.pc = "idle"
       /\ \E func \in ExtractorCandidates : ExtractActivity(func)
    \/ /\ ext.pc = "idle"
       /\ \E cls \in WorkflowCandidates : ExtractWorkflow(cls)
    \/ /\ ext.pc = "idle"
       /\ \E activities \in UNION { [1..n -> FunctionPool] : n \in 0..MaxCandidates },
             workflows \in UNION { [1..n -> ClassPool] : n \in 0..MaxCandidates } :
             ExtractAll(activities, workflows)

SpecExtractor == Init /\ [][NextExtractor]_vars

(* C18: extract_activity_metadata on a function without activity metadata  *)
(* and extract_workflow_metadata on a class without workflow metadata      *)
(* raise ValueError with a message naming the candidate and return no      *)
(* record; extract_all_metadata raises and returns nothing when any one of *)
(* its candidates lacks the metadata.  A function has a __name__; so has   *)
(* every candidate the first part is about.                                *)
C18_ExtractionFailsWithoutMetadata ==
    /\ (ext.pc = "extract_activity_metadata" /\ ~ext.cand.activity_decorated
            /\ ext.cand.has_name) =>
          /\ ext.out.raised = "ValueError"
          /\ ext.out.message =
                "Function " \o ext.cand.name \o " is not decorated with @activity"
          /\ ext.out.meta = NoMeta
    /\ (ext.pc = "extract_workflow_metadata" /\ ~ext.cand.workflow_decorated
            /\ ~ext.cand.base_workflow) =>
          /\ ext.out.raised = "ValueError"
          /\ ext.out.message =
                "Class " \o ext.cand.name \o " is not decorated with @workflow"
          /\ ext.out.meta = NoMeta
    /\ (/\ ext.pc = "extract_all_metadata"
        /\ \/ \E i \in DOMAIN ext.activities :
                 ~ext.activities[i].activity_decorated
           \/ \E i \in DOMAIN ext.workflows :
                 /\ ~ext.workflows[i].workflow_decorated
                 /\ ~ext.workflows[i].base_workflow) =>
          /\ ext.out.raised # "none"
          /\ ext.out.result = NoRecords

\* extract_all_metadata on a decorated activity followed by an undecorated
\* function, and on one decorated workflow
C18_Witness ==
    /\ ext.pc = "extract_all_metadata"
    /\ Len(ext.activities) = 2
    /\ ext.activities[1].activity_decorated /\ ext.activities[1].has_signature
    /\ ~ext.activities[2].activity_decorated
    /\ Len(ext.workflows) = 1
    /\ ext.workflows[1].workflow_decorated
    /\ ext.out.raised = "ValueError"

\* an undecorated callable without __name__ (a functools.partial) does not get
\* the ValueError: the message of line 24 cannot be built
UnnamedCandidateRaisesAttributeError ==
    (ext.pc = "extract_activity_metadata" /\ ~ext.cand.activity_decorated
        /\ ~ext.cand.has_name) =>
          /\ ext.out.raised = "AttributeError"
          /\ ext.out.meta = NoMeta

\* extract_activity_metadata has returned the record of a function
ExtractedActivity ==
    /\ ext.pc = "extract_activity_metadata"
    /\ ext.cand.kind = "function"
    /\ ext.out.raised = "none"

\* the parameters of the candidate that are not named self, cls or input_data
NotSpecial(func) ==
    LET Keep(param) == param.name \notin {"self", "cls", "input_data"}
    IN  SelectSeq(func.params, Keep)

DescriptorFields ==
    {"label", "description", "required", "default", "template", "secret",
     "options", "validation"}

\* the entries follow the signature: one entry per parameter not named self,
\* cls or input_data, in order; of the descriptor fields an entry has all
\* eight, with the descriptor's values, when the default is a Parameter
\* instance, the plain default alone when it is anything else, and none when
\* there is no default.  Besides these an entry has the name, the
\* python_name and what the annotation gives
EntriesFollowTheSignature(func, entries) ==
    LET kept == NotSpecial(func)
    IN  /\ Len(entries) = Len(kept)
        /\ \A k \in DOMAIN entries :
              /\ entries[k].name = kept[k].name
              /\ entries[k].python_name = kept[k].name
              /\ DOMAIN entries[k] \subseteq
                    {"name", "python_name", "annotation", "type"}
                      \cup DescriptorFields
              /\ kept[k].default = "Parameter" =>
                   /\ DescriptorFields \subseteq DOMAIN entries[k]
                   /\ entries[k].label = kept[k].descriptor.label
                   /\ entries[k].description = kept[k].descriptor.description
                   /\ entries[k].required = kept[k].descriptor.required
                   /\ entries[k].template = kept[k].descriptor.template
                   /\ entries[k].secret = kept[k].descriptor.secret
                   /\ entries[k].default # "None"
                        <=> kept[k].descriptor.has_default
              /\ kept[k].default = "plain" =>
                   /\ DOMAIN entries[k] \cap DescriptorFields = {"default"}
                   /\ entries[k].default = "plain"
              /\ kept[k].default = "empty" =>
                   DOMAIN entries[k] \cap DescriptorFields = {}

(* C26: extract_activity_metadata on a decorated function returns a        *)
(* parameter list with one entry per parameter not named self, cls or      *)
(* input_data, in signature order.  An entry carries the eight descriptor  *)
(* fields, with the descriptor's values, when the default is a Parameter   *)
(* instance; only the plain default when it is anything else; no default   *)
(* key when there is none.                                                 *)
C26_ParameterEntriesFollowTheSignature ==
    (/\ ext.pc = "extract_activity_metadata"
     /\ ext.cand.kind = "function"
     /\ ext.cand.activity_decorated) =>
        /\ ext.out.raised = "none"
        /\ EntriesFollowTheSignature(ext.cand, ext.out.meta.parameters)

\* a list that is returned follows the signature
ReturnedEntriesFollowTheSignature ==
    ExtractedActivity =>
        EntriesFollowTheSignature(ext.cand, ext.out.meta.parameters)

\* the annotations line 48 fails on: generic, with a tuple of arguments that
\* is empty or starts with an object without __name__
RaisesOnLine48(annotation) ==
    /\ annotation.present /\ annotation.has_origin /\ annotation.has_args
    /\ annotation.args = <<>> \/ ~annotation.args[1].has_name

\* a decorated function gets its list exactly when no parameter that is not
\* skipped has such an annotation; else the exception is that of line 48
ListReturnedUnlessLine48Raises ==
    (/\ ext.pc = "extract_activity_metadata"
     /\ ext.cand.kind = "function"
     /\ ext.cand.activity_decorated) =>
        LET kept == NotSpecial(ext.cand)
            failing == { k \in DOMAIN kept : RaisesOnLine48(kept[k].annotation) }
        IN  /\ ext.out.raised = "none" <=> failing = {}
            /\ failing # {} =>
                 /\ ext.out.meta = NoMeta
                 /\ ext.out.raised =
                      (LET first == CHOOSE k \in failing :
                                       \A other \in failing : k <= other
                       IN  IF kept[first].annotation.args = <<>>
                           THEN "IndexError" ELSE "AttributeError")

\* the annotation and type keys of a returned entry: none without annotation;
\* the text of the annotation, and as type the name of the first argument of
\* a generic, the name of a class, the text of anything else; a generic
\* without arguments has no type key
AnnotationKeysFollowTheAnnotation ==
    ExtractedActivity =>
        LET entries == ext.out.meta.parameters
            kept == NotSpecial(ext.cand)
        IN  \A k \in DOMAIN entries :
              LET annotation == kept[k].annotation
              IN  /\ "annotation" \in DOMAIN entries[k] <=> annotation.present
                  /\ annotation.present =>
                       entries[k].annotation = annotation.text
                  /\ "type" \in DOMAIN entries[k] <=>
                       /\ annotation.present
                       /\ annotation.has_origin => annotation.has_args
                  /\ "type" \in DOMAIN entries[k] =>
                       entries[k].type =
                         (IF annotation.has_origin THEN annotation.args[1].name
                          ELSE IF annotation.has_name THEN annotation.name
                          ELSE annotation.text)

\* def f(x: Parameter[str] = Parameter(...), y: str = ...): the documented
\* usage is extracted, with the annotation and type keys
AnnotatedDescriptorExtracted ==
    /\ ExtractedActivity
    /\ Len(ext.out.meta.parameters) = 2
    /\ ext.cand.params[1].default = "Parameter"
    /\ ext.cand.params[1].annotation.has_origin
    /\ DescriptorFields \cup {"annotation", "type"}
          \subseteq DOMAIN ext.out.meta.parameters[1]
    /\ ext.out.meta.parameters[1].type = "str"

\* the parameters the TWD007 loop of validate_activity examines: the special
\* names and the variadic-keyword parameter are skipped (validator.py lines
\* 141-146)
ExaminedByValidator(func) ==
    { func.params[i].name : i \in
        { j \in DOMAIN func.params :
            /\ func.params[j].name \notin {"self", "cls", "input_data"}
            /\ func.params[j].kind # "VAR_KEYWORD" } }

ListedByExtractor ==
    { ext.out.meta.parameters[k].name : k \in DOMAIN ext.out.meta.parameters }

(* C28: the names in the parameter list of extract_activity_metadata are   *)
(* the parameters the TWD007 rule of the Validator examines; a **kwargs    *)
(* parameter is not listed.                                                *)
C28_ExtractorListsWhatValidatorExamines ==
    ExtractedActivity => ListedByExtractor = ExaminedByValidator(ext.cand)

\* the two agree on every function without variadic-keyword parameter
AgreeWithoutVarKeyword ==
    (ExtractedActivity
       /\ \A i \in DOMAIN ext.cand.params : ext.cand.params[i].kind # "VAR_KEYWORD")
      => ListedByExtractor = ExaminedByValidator(ext.cand)

-----------------------------------------------------------------------------
(* Generators.  A generate-everything entry point returns a mapping from   *)
(* relative output path to content; the content of a file is modelled as   *)
(* the template it is made from and the metadata values the template       *)
(* interpolates.  A text that is not transformed is one piece.             *)

\* dict.get(key, default)
Get(meta, key, default) == IF key \in DOMAIN meta THEN meta[key] ELSE default

\* [a.get("function_name", default) for a in activities_meta]
function_names(activities_meta, default) ==
    [i \in DOMAIN activities_meta |->
        Get(activities_meta[i], "function_name", default)]

\* the relative paths of the Temporal application, generator.py lines 491-499
TemporalPaths ==
    {"workflow.py", "activities.py", "worker.py", "starter.py",
     "requirements.txt", "Dockerfile", "docker-compose.yml", ".env.example",
     "README.md"}

\* generate_all_files emitting the DAG definition file as well
generate_all_files_with_dag(workflow_meta, activities_meta) ==
    [path \in TemporalPaths \cup {"dag.py"} |->
        [template |-> "temporal/" \o path,
         name |-> Get(workflow_meta, "name", << "Workflow" >>)]]

generate_all_files(workflow_meta, activities_meta) ==
    LET name == Get(workflow_meta, "name", << "Workflow" >>)
        class_name == Get(workflow_meta, "class_name", "TwiddleWorkflow")
        task_queue == Get(workflow_meta, "task_queue", << "twiddle" >>)
    IN  [path \in TemporalPaths |->
          CASE path = "workflow.py" ->
                 [template |-> "temporal/workflow.py", name |-> name,
                  class_name |-> class_name, task_queue |-> task_queue]
            [] path = "activities.py" ->
                 [template |-> "temporal/activities.py",
                  functions |-> function_names(activities_meta,
                                               "unknown_activity")]
            [] path = "worker.py" ->
                 [template |-> "temporal/worker.py", class_name |-> class_name,
                  task_queue |-> task_queue,
                  functions |-> function_names(activities_meta, "unknown")]
            [] path = "starter.py" ->
                 [template |-> "temporal/starter.py", name |-> name,
                  class_name |-> class_name, task_queue |-> task_queue]
            [] path = "requirements.txt" ->
                 [template |-> "temporal/requirements.txt"]
            [] path = "Dockerfile" ->
                 [template |-> "temporal/Dockerfile", name |-> name]
            [] path = "docker-compose.yml" ->
                 [template |-> "temporal/docker-compose.yml", name |-> name]
            [] path = ".env.example" ->
                 [template |-> "temporal/.env.example", name |-> name,
                  task_queue |-> task_queue]
            [] path = "README.md" ->
                 [template |-> "temporal/README.md", name |-> name,
                  task_queue |-> task_queue]]

\* the task-implementation file of an activity
task_path(function_name) == "tasks/" \o function_name \o ".py"

(* generate_all_airflow_files: one top-level DAG definition file, one      *)
(* task-implementation file per activity under tasks/, the package file of *)
(* tasks/, a dependency manifest and a readme.                             *)
generate_all_airflow_files(workflow_meta, activities_meta) ==
    LET name == Get(workflow_meta, "name", << "Workflow" >>)
        dag_id == Get(workflow_meta, "dag_id", << "twiddle_dag" >>)
        functions == function_names(activities_meta, "unknown")
        tasks == { task_path(functions[i]) : i \in DOMAIN functions }
    IN  [path \in {"dag.py", "requirements.txt", "README.md",
                   "tasks/__init__.py"} \cup tasks |->
          IF path = "dag.py"
          THEN [template |-> "airflow/dag.py", name |-> name,
                dag_id |-> dag_id, functions |-> functions]
          ELSE IF path = "README.md"
          THEN [template |-> "airflow/README.md", name |-> name,
                dag_id |-> dag_id]
          ELSE IF path = "requirements.txt"
          THEN [template |-> "airflow/requirements.txt"]
          ELSE IF path = "tasks/__init__.py"
          THEN [template |-> "airflow/tasks/__init__.py"]
          ELSE [template |-> "airflow/task", path |-> path]]

(* The two generate-everything entry points called on the same metadata.   *)

\* the activity records the entry points are given: the function names
\* include the stems of the files of the other family
GeneratorActivities ==
    { extract_activity_metadata(
          Function(1, function_name, TRUE, is_async, <<>>, TRUE)).meta :
        function_name \in {"act_one", "dag", "workflow", "__init__"},
        is_async \in BOOLEAN }

\* the workflow records the entry points are given
GeneratorWorkflows ==
    { extract_workflow_metadata(
          workflow(name, None, dag_id, Class(1, "Flow", FALSE, FALSE, "callable"))).meta :
        name \in {DisplayName, << "b" >>}, dag_id \in {None, Some(<< "b", "_" >>)} }
    \cup { [kind |-> "workflow", name |-> DisplayName] }

NotRun == << >>

\* files = generate_all_files(workflow_meta, activities_meta)
GenerateAllFiles(workflow_meta, activities_meta) ==
    /\ \/ gen.pc = "idle"
       \/ /\ gen.pc = "generated"
          /\ gen.workflow_meta = workflow_meta
          /\ gen.activities_meta = activities_meta
          /\ ~gen.temporal_run
    /\ gen' = [pc |-> "generated", workflow_meta |-> workflow_meta,
               activities_meta |-> activities_meta,
               temporal_run |-> TRUE,
               temporal |-> generate_all_files(workflow_meta, activities_meta),
               airflow_run |-> (gen.pc = "generated"),
               airflow |-> IF gen.pc = "generated" THEN gen.airflow ELSE NotRun]
    /\ UNCHANGED <<registry, nloads, last, scan, val, disc, lint, rep, ext, conv, proj, exec, store>>

\* files = generate_all_airflow_files(workflow_meta, activities_meta)
GenerateAllAirflowFiles(workflow_meta, activities_meta) ==
    /\ \/ gen.pc = "idle"
       \/ /\ gen.pc = "generated"
          /\ gen.workflow_meta = workflow_meta
          /\ gen.activities_meta = activities_meta
          /\ ~gen.airflow_run
    /\ gen' = [pc |-> "generated", workflow_meta |-> workflow_meta,
               activities_meta |-> activities_meta,
               airflow_run |-> TRUE,
               airflow |-> generate_all_airflow_files(workflow_meta,
                                                      activities_meta),
               temporal_run |-> (gen.pc = "generated"),
               temporal |-> IF gen.pc = "generated" THEN gen.temporal ELSE NotRun]
    /\ UNCHANGED <<registry, nloads, last, scan, val, disc, lint, rep, ext, conv, proj, exec, store>>

NextGenerators ==
    \/ \E workflow_meta \in GeneratorWorkflows,
          activities_meta \in UNION { [1..n -> GeneratorActivities] :
                                        n \in 0..MaxCandidates } :
          GenerateAllFiles(workflow_meta, activities_meta)
    \/ \E workflow_meta \in GeneratorWorkflows,
          activities_meta \in UNION { [1..n -> GeneratorActivities] :
                                        n \in 0..MaxCandidates } :
          GenerateAllAirflowFiles(workflow_meta, activities_meta)

SpecGenerators == Init /\ [][NextGenerators]_vars

\* both entry points have run on the same metadata
BothGenerated == gen.pc = "generated" /\ gen.temporal_run /\ gen.airflow_run

(* C14 as stated: no relative output path emitted by the Temporal entry    *)
(* point is also emitted by the Airflow entry point, for the same workflow *)
(* and activity metadata.                                                  *)
C14_GeneratedPathsAreDisjoint ==
    BothGenerated => (DOMAIN gen.temporal) \cap (DOMAIN gen.airflow) = {}

(* C14 amended: the relative output paths both entry points emit are       *)
(* exactly requirements.txt and README.md; every other path is emitted by  *)
(* one family only.                                                        *)
C14_OnlyManifestAndReadmeAreShared ==
    BothGenerated =>
        (DOMAIN gen.temporal) \cap (DOMAIN gen.airflow) =
            {"requirements.txt", "README.md"}

\* both entry points run on two activities named like files of the other
\* family
C14_Witness ==
    /\ BothGenerated
    /\ Len(gen.activities_meta) = 2
    /\ gen.activities_meta[1].function_name = "workflow"
    /\ gen.activities_meta[2].function_name = "dag"
    /\ "tasks/workflow.py" \in DOMAIN gen.airflow
    /\ "workflow.py" \in DOMAIN gen.temporal

-----------------------------------------------------------------------------
(* Reporter: format_lint_results(errors, file_path, show_summary).  The    *)
(* returned text is modelled as its sequence of lines.                     *)

Severities == {"error", "warning", "info"}

\* the findings of the sequence with the given severity, in order
RECURSIVE WithSeverity(_, _)
WithSeverity(errors, severity) ==
    IF errors = <<>> THEN <<>>
    ELSE (IF Head(errors).severity = severity THEN << Head(errors) >> ELSE <<>>)
           \o WithSeverity(Tail(errors), severity)

\* f"  {marker} {rule_id} [{location}]: {message}" for each finding
FindingLines(errors, marker) ==
    [i \in DOMAIN errors |->
        [line |-> "finding", marker |-> marker, rule_id |-> errors[i].rule_id,
         location |-> errors[i].location, message |-> errors[i].message]]

\* lines 53-60: the parts of the summary line
SummaryParts(errors_list, warnings_list, info_list) ==
    (IF errors_list # <<>>
     THEN << [count |-> Len(errors_list), label |-> "error(s)"] >> ELSE <<>>)
    \o (IF warnings_list # <<>>
        THEN << [count |-> Len(warnings_list), label |-> "warning(s)"] >> ELSE <<>>)
    \o (IF info_list # <<>>
        THEN << [count |-> Len(info_list), label |-> "info"] >> ELSE <<>>)

\* format_lint_results without the early return of lines 28-29
format_lint_results_no_early_return(errors, file_path, show_summary) ==
    LET errors_list == WithSeverity(errors, "error")
        warnings_list == WithSeverity(errors, "warning")
        info_list == WithSeverity(errors, "info")
    IN  (IF file_path # ""
         THEN << [line |-> "blank"],
                 [line |-> "path", text |-> file_path],
                 [line |-> "underline", text |-> file_path] >>
         ELSE <<>>)
        \o FindingLines(errors_list, "error")
        \o FindingLines(warnings_list, "warning")
        \o FindingLines(info_list, "info")
        \o (IF show_summary
            THEN << [line |-> "blank"],
                    [line |-> "summary",
                     parts |-> SummaryParts(errors_list, warnings_list,
                                            info_list)] >>
            ELSE <<>>)

\* the marker line of each finding, in the order of the input
RECURSIVE UngroupedLines(_)
UngroupedLines(errors) ==
    IF errors = <<>> THEN <<>>
    ELSE FindingLines(<< Head(errors) >>, Head(errors).severity)
           \o UngroupedLines(Tail(errors))

\* format_lint_results rendering the findings in input order, ungrouped
format_lint_results_ungrouped(errors, file_path, show_summary) ==
    IF errors = <<>> THEN << [line |-> "No issues found"] >>
    ELSE LET errors_list == WithSeverity(errors, "error")
             warnings_list == WithSeverity(errors, "warning")
             info_list == WithSeverity(errors, "info")
         IN  (IF file_path # ""
              THEN << [line |-> "blank"],
                      [line |-> "path", text |-> file_path],
                      [line |-> "underline", text |-> file_path] >>
              ELSE <<>>)
             \o UngroupedLines(errors)
             \o (IF show_summary
                 THEN << [line |-> "blank"],
                         [line |-> "summary",
                          parts |-> SummaryParts(errors_list, warnings_list,
                                                 info_list)] >>
                 ELSE <<>>)

\* the lines of the returned text ("\n".join(lines) split at the line breaks;
\* the header f"\n{file_path}" is an empty line and the path)
format_lint_results(errors, file_path, show_summary) ==
    IF errors = <<>> THEN << [line |-> "No issues found"] >>
    ELSE LET errors_list == WithSeverity(errors, "error")
             warnings_list == WithSeverity(errors, "warning")
             info_list == WithSeverity(errors, "info")
         IN  (IF file_path # ""
              THEN << [line |-> "blank"],
                      [line |-> "path", text |-> file_path],
                      [line |-> "underline", text |-> file_path] >>
              ELSE <<>>)
             \o FindingLines(errors_list, "error")
             \o FindingLines(warnings_list, "warning")
             \o FindingLines(info_list, "info")
             \o (IF show_summary
                 THEN << [line |-> "blank"],
                         [line |-> "summary",
                          parts |-> SummaryParts(errors_list, warnings_list,
                                                 info_list)] >>
                 ELSE <<>>)

(* The Reporter called on one sequence of findings.                        *)

\* findings in one Reporter call
MaxFindings == 3

\* the findings a call is given: LintError records of the three severities
\* and one whose severity, a free string (validator.py line 18), is another
ReporterFindings ==
    { LintError(rule_id, severity, "m", location) :
        rule_id \in {"TWD001", "TWD003"}, severity \in Severities,
        location \in {"f", "g"} }
    \cup { LintError("TWD003", "hint", "m", "f") }

FilePaths == {"", "d1/a.py"}

FormatLintResults(errors, file_path, show_summary) ==
    /\ rep.pc = "idle"
    /\ rep' = [pc |-> "format_lint_results", errors |-> errors,
               file_path |-> file_path, show_summary |-> show_summary,
               lines |-> format_lint_results(errors, file_path, show_summary)]
    /\ UNCHANGED <<registry, nloads, last, scan, val, disc, lint, ext, gen, conv, proj, exec, store>>

NextReporter ==
    /\ rep.pc = "idle"
    /\ \E errors \in UNION { [1..n -> ReporterFindings] : n \in 0..MaxFindings },
          file_path \in FilePaths, show_summary \in BOOLEAN :
          FormatLintResults(errors, file_path, show_summary)

SpecReporter == Init /\ [][NextReporter]_vars

(* C19: for an empty sequence of findings the returned text is exactly one *)
(* line, the no-issues line, whatever file_path and show_summary are.      *)
C19_EmptyFindingsGiveOneLine ==
    (rep.pc = "format_lint_results" /\ rep.errors = <<>>) =>
        /\ Len(rep.lines) = 1
        /\ rep.lines[1] = [line |-> "No issues found"]

\* a call with no findings, a file path and the summary asked for
C19_Witness ==
    /\ rep.pc = "format_lint_results"
    /\ rep.errors = <<>>
    /\ rep.file_path # ""
    /\ rep.show_summary
    /\ Len(rep.lines) = 1

\* the place of a severity block in the text
BlockRank(severity) ==
    CASE severity = "error" -> 1
      [] severity = "warning" -> 2
      [] severity = "info" -> 3
      [] OTHER -> 4

\* the finding lines of the text, in order
FindingLinesOf(lines) == SelectSeq(lines, LAMBDA l : l.line = "finding")

\* the summary label of a severity
SummaryLabel(severity) ==
    CASE severity = "error" -> "error(s)"
      [] severity = "warning" -> "warning(s)"
      [] severity = "info" -> "info"

(* C20: for a non-empty sequence of findings the text is: the header (an   *)
(* empty line, the path, its underline) iff file_path is non-empty; then   *)
(* one line per error, warning and info finding, errors before warnings    *)
(* before info, the lines of                                               *)
(* one severity in the relative order of the input and carrying the code,  *)
(* location and message of their finding; then, iff show_summary is set,   *)
(* an empty line and one summary line whose tally for each severity that   *)
(* occurs is the number of findings of that severity, in the order errors, *)
(* warnings, info.                                                         *)
C20_HeaderThenGroupedFindingsThenSummary ==
    (rep.pc = "format_lint_results" /\ rep.errors # <<>>) =>
      LET lines == rep.lines
          h == IF rep.file_path # "" THEN 3 ELSE 0
          n == Len(SelectSeq(rep.errors, LAMBDA e : e.severity \in Severities))
          found == FindingLinesOf(lines)
          Of(severity) == SelectSeq(rep.errors, LAMBDA e : e.severity = severity)
          LinesOf(severity) == SelectSeq(found, LAMBDA l : l.marker = severity)
      IN  /\ Len(lines) = h + n + (IF rep.show_summary THEN 2 ELSE 0)
          /\ rep.file_path # "" =>
                /\ lines[1] = [line |-> "blank"]
                /\ lines[2] = [line |-> "path", text |-> rep.file_path]
                /\ lines[3] = [line |-> "underline", text |-> rep.file_path]
          /\ \A i \in (h + 1)..(h + n) : lines[i].line = "finding"
          /\ \A i, j \in (h + 1)..(h + n) :
                i < j => BlockRank(lines[i].marker) <= BlockRank(lines[j].marker)
          /\ \A severity \in Severities :
                /\ Len(LinesOf(severity)) = Len(Of(severity))
                /\ \A k \in DOMAIN Of(severity) :
                      /\ LinesOf(severity)[k].rule_id = Of(severity)[k].rule_id
                      /\ LinesOf(severity)[k].location = Of(severity)[k].location
                      /\ LinesOf(severity)[k].message = Of(severity)[k].message
          /\ rep.show_summary =>
                /\ lines[h + n + 1] = [line |-> "blank"]
                /\ lines[h + n + 2].line = "summary"
                /\ LET parts == lines[h + n + 2].parts
                   IN  /\ \A severity \in Severities :
                             Cardinality({ k \in DOMAIN parts :
                                 /\ parts[k].label = SummaryLabel(severity)
                                 /\ parts[k].count = Len(Of(severity)) }) =
                               (IF Of(severity) # <<>> THEN 1 ELSE 0)
                       /\ Len(parts) =
                             Cardinality({ severity \in Severities :
                                             Of(severity) # <<>> })
                       /\ \A k, l \in DOMAIN parts :
                             k < l =>
                               \E s, t \in Severities :
                                  /\ parts[k].label = SummaryLabel(s)
                                  /\ parts[l].label = SummaryLabel(t)
                                  /\ BlockRank(s) < BlockRank(t)

\* an info, an error and a warning finding given in that order, with a file
\* path and the summary asked for
C20_Witness ==
    /\ rep.pc = "format_lint_results"
    /\ Len(rep.errors) = 3
    /\ rep.errors[1].severity = "info"
    /\ rep.errors[2].severity = "error"
    /\ rep.errors[3].severity = "warning"
    /\ rep.file_path # ""
    /\ rep.show_summary
    /\ Len(rep.lines) = 8

-----------------------------------------------------------------------------
(* The lint command: run_linter(path, output_format, target).              *)

\* lines 47-49: the findings of each activity, in order
RECURSIVE activity_errors(_, _)
activity_errors(activities, target) ==
    IF activities = <<>> THEN <<>>
    ELSE validate_activity(Head(activities), target)
           \o activity_errors(Tail(activities), target)

\* lines 54-56: the findings of each workflow, in order
RECURSIVE workflow_errors(_, _)
workflow_errors(workflows, target) ==
    IF workflows = <<>> THEN <<>>
    ELSE validate_workflow(Head(workflows), target)
           \o workflow_errors(Tail(workflows), target)

(* lint_file(file_path, target): the result, or the exception that leaves  *)
(* it (raised # "none": nothing is returned).                              *)
lint_file(reg, f, addr, handle, target) ==
    LET r == load_module_from_path(reg, f, addr, handle)
        activities == discover_activities(f.members)
        workflows == discover_workflows(f.members)
    IN  IF r.raised = "none"
        THEN [raised |-> "none", code |-> 0, load |-> r,
              result |->
                [file |-> str(f.path),
                 activities_found |-> Len(activities),
                 workflows_found |-> Len(workflows),
                 errors |-> activity_errors(activities, target)
                            \o workflow_errors(workflows, target)]]
        ELSE IF IsException(r.raised)
        THEN [raised |-> "none", code |-> 0, load |-> r,
              result |->
                [file |-> str(f.path), activities_found |-> 0,
                 workflows_found |-> 0,
                 errors |-> << LintError("TWD000", "error",
                                 "Failed to load module: " \o r.message,
                                 str(f.path)) >>]]
        ELSE [raised |-> r.raised, code |-> f.body.code, load |-> r,
              result |->
                [file |-> str(f.path), activities_found |-> 0,
                 workflows_found |-> 0, errors |-> <<>>]]

\* the paths of the tree in the order of sorted(dir_path.rglob("*.py"))
SortedPaths ==
    << [dir |-> "d1", stem |-> ".hidden", suffix |-> ".py"],
       [dir |-> "d1/__pycache__", stem |-> "a", suffix |-> ".py"],
       [dir |-> "d1", stem |-> "a", suffix |-> ".py"],
       [dir |-> "d1", stem |-> "b", suffix |-> ".py"],
       [dir |-> "d1", stem |-> "notes", suffix |-> ".txt"],
       [dir |-> "d1/sub", stem |-> "a", suffix |-> ".py"] >>

RECURSIVE sorted(_, _)
\* the paths of the set in sorted order, from position i of SortedPaths on
sorted(paths, i) ==
    IF i > Len(SortedPaths) THEN <<>>
    ELSE (IF SortedPaths[i] \in paths THEN << SortedPaths[i] >> ELSE <<>>)
           \o sorted(paths, i + 1)

\* the directory the tree hangs under, and a path that does not exist
RootDir == [dir |-> "d1", stem |-> "", suffix |-> ""]
Missing == [dir |-> "nowhere", stem |-> "", suffix |-> ""]

OutputFormats == {"text", "json"}

\* the number of findings of the results with one of the severities
RECURSIVE CountFindings(_, _)
CountFindings(results, severities) ==
    IF results = <<>> THEN 0
    ELSE Cardinality({ i \in DOMAIN Head(results).errors :
                         Head(results).errors[i].severity \in severities })
         + CountFindings(Tail(results), severities)

\* the number of findings of the results with none of the severities
RECURSIVE CountOther(_, _)
CountOther(results, severities) ==
    IF results = <<>> THEN 0
    ELSE Cardinality({ i \in DOMAIN Head(results).errors :
                         Head(results).errors[i].severity \notin severities })
         + CountOther(Tail(results), severities)

RECURSIVE SumField(_, _)
SumField(results, field) ==
    IF results = <<>> THEN 0
    ELSE Head(results)[field] + SumField(Tail(results), field)

\* the totals with the warnings counted among the errors
Totals_warnings_as_errors(results) ==
    [total_activities |-> SumField(results, "activities_found"),
     total_workflows |-> SumField(results, "workflows_found"),
     total_errors |-> CountFindings(results, {"error", "warning"}),
     total_warnings |-> 0,
     total_info |-> CountOther(results, {"error", "warning"})]

\* lines 129-145
Totals(results) ==
    [total_activities |-> SumField(results, "activities_found"),
     total_workflows |-> SumField(results, "workflows_found"),
     total_errors |-> CountFindings(results, {"error"}),
     total_warnings |-> CountFindings(results, {"warning"}),
     total_info |-> CountOther(results, {"error", "warning"})]

\* lines 190-197: the blocks printed for the files that have findings
RECURSIVE TextBlocks(_)
TextBlocks(results) ==
    IF results = <<>> THEN <<>>
    ELSE (IF Head(results).errors # <<>>
          THEN << format_lint_results(Head(results).errors, Head(results).file,
                                      FALSE) >>
          ELSE <<>>)
         \o TextBlocks(Tail(results))

\* lines 147-207: what is printed
Output(results, output_format) ==
    LET t == Totals(results)
    IN  IF output_format = "json"
        THEN [format |-> "json", results |-> results,
              summary |-> [total_activities |-> t.total_activities,
                           total_workflows |-> t.total_workflows,
                           total_errors |-> t.total_errors,
                           total_warnings |-> t.total_warnings,
                           total_info |-> t.total_info,
                           passed |-> (t.total_errors = 0)]]
        ELSE [format |-> "text",
              found |-> [activities |-> t.total_activities,
                         workflows |-> t.total_workflows],
              blocks |-> TextBlocks(results),
              verdict |-> IF results = <<>> THEN "No Twiddle components found."
                          ELSE IF t.total_errors = 0 THEN "All checks passed!"
                          ELSE "error(s)"]

\* lines 117-127: the files the run lints, or the exit on a path that is
\* neither a file nor a directory
LintStart(tree, path, output_format, target) ==
    /\ lint.pc = "idle"
    /\ lint' =
         IF path \in DOMAIN tree
         THEN [pc |-> "files", tree |-> tree, path |-> path, kind |-> "file",
               output_format |-> output_format, target |-> target,
               queue |-> << path >>, results |-> <<>>, raised |-> "none",
               status |-> 0]
         ELSE IF path = RootDir
         THEN [pc |-> "files", tree |-> tree, path |-> path, kind |-> "dir",
               output_format |-> output_format, target |-> target,
               queue |-> sorted(rglob_py(tree), 1), results |-> <<>>,
               raised |-> "none", status |-> 0]
         ELSE [pc |-> "exited", tree |-> tree, path |-> path, kind |-> "none",
               output_format |-> output_format, target |-> target,
               queue |-> <<>>, results |-> <<>>, raised |-> "none",
               status |-> 1]
    /\ UNCHANGED <<registry, nloads, last, scan, val, disc, rep, ext, gen, conv, proj, exec, store>>

\* lint_file on the single file (line 122), or one iteration of the loop of
\* lint_directory (lines 89-103)
LintNext(addr) ==
    /\ lint.pc = "files"
    /\ lint.queue # <<>>
    /\ LET py_file == Head(lint.queue)
       IN  IF lint.kind = "dir" /\ (in_pycache(py_file) \/ is_hidden(py_file))
           THEN /\ lint' = [lint EXCEPT !.queue = Tail(@)]
                /\ UNCHANGED <<registry, nloads, last>>
           ELSE LET f == FileAt(lint.tree, py_file)
                    l == lint_file(registry, f, addr, nloads + 1, lint.target)
                    keep == \/ lint.kind = "file"
                            \/ l.result.activities_found > 0
                            \/ l.result.workflows_found > 0
                            \/ l.result.errors # <<>>
                IN  /\ registry' = l.load.registry
                    /\ nloads' = nloads + 1
                    /\ last' = [file |-> f, before |-> registry, result |-> l.load]
                    /\ lint' =
                         IF l.raised # "none"
                         THEN [lint EXCEPT !.pc = "raised", !.raised = l.raised,
                                           !.status = l.code]
                         ELSE [lint EXCEPT
                                 !.queue = Tail(@),
                                 !.results = IF keep THEN Append(@, l.result)
                                             ELSE @]
    /\ UNCHANGED <<scan, val, disc, rep, ext, gen, conv, proj, exec, store>>

\* lines 129-211: the totals, the output and the exit status
LintReport ==
    /\ lint.pc = "files"
    /\ lint.queue = <<>>
    /\ lint' = [pc |-> "exited", tree |-> lint.tree, path |-> lint.path,
                kind |-> lint.kind, output_format |-> lint.output_format,
                target |-> lint.target, queue |-> <<>>,
                results |-> lint.results, raised |-> "none",
                output |-> Output(lint.results, lint.output_format),
                status |-> IF Totals(lint.results).total_errors > 0
                           THEN 1 ELSE 0]
    /\ UNCHANGED <<registry, nloads, last, scan, val, disc, rep, ext, gen, conv, proj, exec, store>>

NextLint ==
    \/ /\ lint.pc = "idle"
       /\ \E tree \in Trees, output_format \in OutputFormats, target \in Targets :
             \E path \in (DOMAIN tree) \cup {RootDir, Missing} :
                LintStart(tree, path, output_format, target)
    \/ \E addr \in Addrs : LintNext(addr)
    \/ LintReport

SpecLint == Init /\ [][NextLint]_vars

\* the command has ended: by sys.exit, by returning, or by an exception
LintEnded == lint.pc \in {"exited", "raised"}

\* an error-severity finding exists among the findings of the linted files
ErrorFindingExists ==
    \E i \in DOMAIN lint.results :
       \E j \in DOMAIN lint.results[i].errors :
          lint.results[i].errors[j].severity = "error"

(* C10: linting an existing file or directory, the lint command exits with *)
(* status 1 if and only if at least one error-severity finding exists      *)
(* across all linted files (a file that fails to load counting as one such *)
(* finding) and with status 0 otherwise, for the text and the json output  *)
(* format alike.                                                           *)
C10_ExitStatusOneIffErrorFinding ==
    (LintEnded /\ lint.kind # "none") =>
        /\ lint.status \in {0, 1}
        /\ lint.status = 1 <=> ErrorFindingExists

\* a run that reaches the end of run_linter exits 1 exactly when an
\* error-severity finding exists
LintCompletedStatus ==
    (lint.pc = "exited" /\ lint.kind # "none") =>
        /\ lint.status \in {0, 1}
        /\ lint.status = 1 <=> ErrorFindingExists

\* the findings listed under results, as (result, finding) positions
ListedFindings(results) ==
    UNION { { <<i, j>> : j \in DOMAIN results[i].errors } : i \in DOMAIN results }

\* the listed findings of a severity
ListedWithSeverity(results, severity) ==
    { p \in ListedFindings(results) :
        results[p[1]].errors[p[2]].severity = severity }

\* one element for each component counted in a per-file field
Counted(results, field) ==
    UNION { { <<i, k>> : k \in 1..results[i][field] } : i \in DOMAIN results }

\* the lint command has printed its json output
JsonPrinted ==
    /\ lint.pc = "exited"
    /\ lint.kind \in {"file", "dir"}
    /\ lint.output_format = "json"

(* C21: in the json output of the lint command, total_activities and       *)
(* total_workflows are the sums of the per-file activities_found and       *)
(* workflows_found, total_errors, total_warnings and total_info are the    *)
(* numbers of findings of each severity listed under results, their sum is *)
(* the number of listed findings, and passed is true iff total_errors = 0. *)
C21_JsonSummaryMatchesResults ==
    JsonPrinted =>
        LET results == lint.output.results
            summary == lint.output.summary
        IN  /\ results = lint.results
            /\ summary.total_activities =
                 Cardinality(Counted(results, "activities_found"))
            /\ summary.total_workflows =
                 Cardinality(Counted(results, "workflows_found"))
            /\ summary.total_errors =
                 Cardinality(ListedWithSeverity(results, "error"))
            /\ summary.total_warnings =
                 Cardinality(ListedWithSeverity(results, "warning"))
            /\ summary.total_info =
                 Cardinality(ListedWithSeverity(results, "info"))
            /\ summary.total_errors + summary.total_warnings
                 + summary.total_info = Cardinality(ListedFindings(results))
            /\ summary.passed <=> summary.total_errors = 0

\* a directory linted for Airflow with json output: a file that fails to load
\* and a file with an activity whose findings are a warning and an info
C21_Witness ==
    /\ JsonPrinted
    /\ lint.kind = "dir"
    /\ Len(lint.output.results) = 2
    /\ lint.output.summary.total_errors = 1
    /\ lint.output.summary.total_warnings > 0
    /\ lint.output.summary.total_info > 0
    /\ lint.output.summary.total_activities > 0
    /\ ~lint.output.summary.passed

\* the findings run_linter counts for one file with the findings given to
\* the Reporter
Accounted(errors) ==
    LET t == Totals(<< [file |-> "", activities_found |-> 0,
                        workflows_found |-> 0, errors |-> errors] >>)
    IN  t.total_errors + t.total_warnings + t.total_info

\* the summary line of the text
SummaryLine == rep.lines[Len(rep.lines)]

(* C29: format_lint_results renders every finding of a non-empty input     *)
(* exactly once, whatever its severity string: there are as many finding   *)
(* lines as findings, the counts of the summary add up to that number, and *)
(* it is the number run_linter accounts for.                               *)
C29_EveryFindingIsRenderedOnce ==
    (rep.pc = "format_lint_results" /\ rep.errors # <<>>) =>
        /\ Len(FindingLinesOf(rep.lines)) = Len(rep.errors)
        /\ rep.show_summary =>
              SumField(SummaryLine.parts, "count") = Len(rep.errors)
        /\ Len(FindingLinesOf(rep.lines)) = Accounted(rep.errors)

\* what holds: findings whose severity is error, warning or info are all
\* rendered and tallied
KnownSeveritiesAreRenderedOnce ==
    (/\ rep.pc = "format_lint_results"
     /\ rep.errors # <<>>
     /\ \A i \in DOMAIN rep.errors : rep.errors[i].severity \in Severities) =>
        /\ Len(FindingLinesOf(rep.lines)) = Len(rep.errors)
        /\ rep.show_summary =>
              SumField(SummaryLine.parts, "count") = Len(rep.errors)
        /\ Len(FindingLinesOf(rep.lines)) = Accounted(rep.errors)

\* the newest load of the lint run failed
LintLoadFailed ==
    /\ lint.pc \in {"files", "raised", "exited"}
    /\ nloads > 0
    /\ last.result.raised # "none"

\* the newest result of the run is the single TWD000 finding of the file the
\* newest load was tried on
FailureListed ==
    /\ lint.pc # "raised"
    /\ lint.results # <<>>
    /\ LET result == lint.results[Len(lint.results)]
       IN  /\ result.file = str(last.file.path)
           /\ result.activities_found = 0
           /\ result.workflows_found = 0
           /\ Len(result.errors) = 1
           /\ result.errors[1].rule_id = "TWD000"
           /\ result.errors[1].severity = "error"
           /\ result.errors[1].location = str(last.file.path)

(* C27: lint_file never raises on a file that fails to load: it returns a  *)
(* result with activities_found = 0, workflows_found = 0 and exactly one   *)
(* finding, TWD000 of severity error located at the file path; the scan of *)
(* a directory goes on and its results include the failed file.            *)
C27_FailedLoadIsOneFindingNeverAnException ==
    LintLoadFailed => FailureListed

\* what holds: a load that fails with an exception deriving from Exception
\* is listed as one TWD000 finding
OrdinaryFailureListed ==
    (LintLoadFailed /\ IsException(last.result.raised)) => FailureListed

-----------------------------------------------------------------------------
(* The order of the findings: validate_activity on one candidate, and      *)
(* lint_file on one file whose module holds activities and workflows.      *)

\* the objects of the linted module: two activities with findings of every
\* severity, a workflow without run(), one whose run is no callable, a helper
OrderingObjects ==
    { Function(1, "act_one", TRUE, TRUE,
               << [name |-> "x", kind |-> "POSITIONAL_OR_KEYWORD",
                   default |-> "plain", descriptor |-> NoDescriptor,
                   annotation |-> NoAnnotation],
                  [name |-> "y", kind |-> "POSITIONAL_OR_KEYWORD",
                   default |-> "plain", descriptor |-> NoDescriptor,
                   annotation |-> NoAnnotation] >>, FALSE),
      Function(2, "act_two", TRUE, FALSE, <<>>, FALSE),
      Function(3, "helper", FALSE, FALSE, <<>>, FALSE),
      Class(4, "Flow", TRUE, FALSE, "absent"),
      Class(5, "Other", TRUE, FALSE, "not_callable") }

\* the namespaces of the linted module: distinct objects, in the order
\* inspect.getmembers lists them
OrderingModules ==
    { [defs |-> { objs[i].id : i \in DOMAIN objs },
       members |-> [i \in DOMAIN objs |->
                      [name |-> BindingNames[i], obj |-> objs[i]]]] :
        objs \in { q \in UNION { [1..n -> OrderingObjects] : n \in 0..MaxMembers } :
                     \A i, j \in DOMAIN q : i # j => q[i] # q[j] } }

\* lint_file(file_path, target) on one file
LintFile(f, target, addr) ==
    /\ val.pc = "idle"
    /\ LET l == lint_file(registry, f, addr, nloads + 1, target)
       IN  /\ registry' = l.load.registry
           /\ nloads' = nloads + 1
           /\ last' = [file |-> f, before |-> registry, result |-> l.load]
           /\ val' = [pc |-> "lint_file", cand |-> f, target |-> target,
                      raised |-> l.raised, findings |-> l.result.errors]
    /\ UNCHANGED <<scan, disc, lint, rep, ext, gen, conv, proj, exec, store>>

NextOrdering ==
    \/ /\ val.pc = "idle"
       /\ \E func \in ActivityCandidates, target \in Targets :
             ValidateActivity(func, target)
    \/ /\ val.pc = "idle"
       /\ \E m \in OrderingModules, target \in Targets, addr \in Addrs :
             \E body \in {BodyOk, [raises |-> "SyntaxError",
                                     msg |-> "invalid syntax", code |-> 0]} :
                LintFile([path |-> [dir |-> "d1", stem |-> "a", suffix |-> ".py"],
                          exists |-> TRUE, body |-> body,
                          members |-> IF body = BodyOk THEN m ELSE EmptyModule],
                         target, addr)

SpecOrdering == Init /\ [][NextOrdering]_vars

\* the place of a rule in the body of validate_activity
RuleRank(rule_id) ==
    CASE rule_id \in {"TWD002", "TWD010"} -> 1
      [] rule_id = "TWD003" -> 2
      [] rule_id = "TWD011" -> 3
      [] rule_id = "TWD004" -> 4
      [] rule_id = "TWD007" -> 5
      [] OTHER -> 0

WorkflowRules == {"TWD005", "TWD006"}

\* the parameter a TWD007 finding is about
ParameterOf(func, finding) ==
    CHOOSE k \in DOMAIN func.params :
        finding.message = "Parameter \"" \o func.params[k].name
                            \o "\" should use Parameter() class for UI metadata"

(* C23: validate_activity lists its findings in the order the rules are    *)
(* written (the async rule TWD002 or TWD010, TWD003, TWD011, TWD004, then  *)
(* the TWD007 findings in parameter order) and never by severity; lint_file *)
(* keeps that order for each activity and puts every activity finding      *)
(* before every workflow finding.                                          *)
C23_FindingsKeepRuleOrder ==
    /\ ValidatedActivity =>
          \A i, j \in DOMAIN val.findings :
             i < j =>
               /\ RuleRank(val.findings[i].rule_id) > 0
               /\ RuleRank(val.findings[i].rule_id)
                     <= RuleRank(val.findings[j].rule_id)
               /\ (val.findings[i].rule_id = "TWD007"
                   /\ val.findings[j].rule_id = "TWD007")
                     => ParameterOf(val.cand, val.findings[i])
                          < ParameterOf(val.cand, val.findings[j])
    /\ (val.pc = "lint_file" /\ val.raised = "none") =>
          \A i, j \in DOMAIN val.findings :
             i < j =>
               /\ val.findings[i].rule_id \in WorkflowRules
                     => val.findings[j].rule_id \in WorkflowRules
               /\ (val.findings[i].location = val.findings[j].location
                   /\ val.findings[j].rule_id \notin WorkflowRules)
                     => RuleRank(val.findings[i].rule_id)
                          <= RuleRank(val.findings[j].rule_id)

\* a file linted for Airflow whose namespace lists a workflow without run()
\* before an async activity with two plain defaults: the activity's warning,
\* warning, info, warning, info, info come first, the workflow's error last
C23_Witness ==
    /\ val.pc = "lint_file"
    /\ val.target = "airflow"
    /\ Len(val.cand.members.members) > 1
    /\ val.cand.members.members[1].obj.kind = "class"
    /\ Len(val.findings) = 7
    /\ [i \in 1..7 |-> val.findings[i].rule_id] =
         << "TWD010", "TWD003", "TWD011", "TWD004", "TWD007", "TWD007",
            "TWD006" >>
    /\ val.findings[3].severity = "info"
    /\ val.findings[4].severity = "warning"
    /\ val.findings[7].severity = "error"

\* the latest validation was of a decorated callable whose signature
\* inspect.signature cannot produce
ValidatedOpaque ==
    /\ val.pc = "validate_activity"
    /\ val.cand.kind = "callable"
    /\ val.cand.activity_decorated
    /\ ~val.cand.has_signature

RulesFound == { val.findings[i].rule_id : i \in DOMAIN val.findings }

(* C24: when the signature of a decorated activity cannot be introspected, *)
(* validate_activity still returns its list: TWD003, TWD011 and TWD007 are *)
(* not reported, while the async rule of the target (TWD002 or TWD010) and *)
(* TWD004 are decided as for any other function.                           *)
C24_OpaqueSignatureSkipsOnlySignatureRules ==
    ValidatedOpaque =>
        /\ RulesFound \cap {"TWD003", "TWD011", "TWD007"} = {}
        /\ RulesFound \subseteq {"TWD002", "TWD010", "TWD004"}
        /\ Cardinality(Found("TWD002", "error"))
              = Holds(val.target = "temporal" /\ ~val.cand.is_async)
        /\ Cardinality(Found("TWD010", "warning"))
              = Holds(val.target = "airflow" /\ val.cand.is_async)
        /\ Cardinality(Found("TWD004", "warning"))
              = Holds(~val.cand.has_return)
        /\ Len(val.findings) =
              Cardinality(Found("TWD002", "error"))
                + Cardinality(Found("TWD010", "warning"))
                + Cardinality(Found("TWD004", "warning"))

\* a decorated non-async callable without signature and without return
\* annotation, validated for Temporal: TWD002 and TWD004 and nothing else
C24_Witness ==
    /\ ValidatedOpaque
    /\ val.target = "temporal"
    /\ ~val.cand.is_async
    /\ ~val.cand.has_return
    /\ [i \in DOMAIN val.findings |-> val.findings[i].rule_id]
          = << "TWD002", "TWD004" >>

-----------------------------------------------------------------------------
(* The convert command and run_conversion.  The file system the command    *)
(* writes to is the set of directories and the files, by path, under the   *)
(* output directory, which does not exist before the command runs.         *)

\* the workflow classes of the converted sources, by the arguments of their
\* decorator: a name with a dash, and explicit overrides
WorkflowArgs ==
    { [id |-> 3, class_name |-> "Flow", name |-> DisplayName,
       task_queue |-> None, dag_id |-> None, run |-> "callable"],
      [id |-> 7, class_name |-> "Etl", name |-> << "A", "-", "b" >>,
       task_queue |-> None, dag_id |-> None, run |-> "callable"],
      [id |-> 8, class_name |-> "Report", name |-> << "b", " ", "A" >>,
       task_queue |-> Some(<< "b" >>), dag_id |-> Some(<< "A", "_" >>),
       run |-> "callable"],
      [id |-> 9, class_name |-> "Broken", name |-> << "b" >>,
       task_queue |-> None, dag_id |-> None, run |-> "not_callable"] }

\* the class the decorator returns for the arguments
DecoratedClass(args) ==
    workflow(args.name, args.task_queue, args.dag_id,
             Class(args.id, args.class_name, FALSE, FALSE, args.run))

\* a module that defines the workflow class of the arguments and one activity
WorkflowModule(args) ==
    [defs |-> {args.id, 6},
     members |-> << [name |-> "a", obj |-> DecoratedClass(args)],
                    [name |-> "b", obj |-> DiscObjects[6]] >>]

\* the paths of the converted tree
CommandPaths ==
    { [dir |-> "d1", stem |-> "a", suffix |-> ".py"],
      [dir |-> "d1", stem |-> "b", suffix |-> ".py"] }

\* what a file of the converted tree holds
CommandContents ==
    { [body |-> BodyOk, members |-> ModuleA],
      [body |-> [raises |-> "SyntaxError", msg |-> "invalid syntax", code |-> 0],
       members |-> EmptyModule],
      [body |-> [raises |-> "SystemExit", msg |-> "3", code |-> 3],
       members |-> EmptyModule] }
    \cup { [body |-> BodyOk, members |-> WorkflowModule(args)] :
             args \in WorkflowArgs }

CommandTrees ==
    UNION { [ps -> CommandContents] :
              ps \in { q \in SUBSET CommandPaths : Cardinality(q) <= MaxFiles } }

\* the values of the --output and --name options
OutputOptions == { None, Some("out") }
NameOptions == { None, Some(<< "A", "-", "b" >>), Some(<< "b", " ", "A" >>) }

\* Path(path).exists(), is_file() and is_dir() in the tree under RootDir
exists(tree, path) == path \in DOMAIN tree \/ path = RootDir
is_file(tree, path) == path \in DOMAIN tree
is_dir(tree, path) == path = RootDir

\* main.py lines 112-114
output_or_default(output, target) ==
    IF output.given THEN output.value ELSE "./" \o target \o "_output"

EmptyFs == [dirs |-> {}, files |-> [p \in {} |-> NoMeta]]

\* Path(filename).parent for a relative output path
parent(filename) ==
    IF filename \in TemporalPaths \cup {"dag.py"} THEN "." ELSE "tasks"

\* output_dir / filename
joined(output_dir, filename) ==
    IF filename = "." THEN output_dir ELSE output_dir \o "/" \o filename

\* convert.py lines 118-127 leaving README.md unwritten
write_files_without_readme(fs, output_dir, files) ==
    LET written == { joined(output_dir, filename) :
                       filename \in (DOMAIN files) \ {"README.md"} }
    IN  [dirs |-> fs.dirs \cup {output_dir},
         files |-> [p \in (DOMAIN fs.files) \cup written |->
                      IF p \in written
                      THEN files[CHOOSE filename \in DOMAIN files :
                                   joined(output_dir, filename) = p]
                      ELSE fs.files[p]]]

\* convert.py lines 118-127: the output directory, the parent directory of
\* each file, and the files
write_files(fs, output_dir, files) ==
    LET written == { joined(output_dir, filename) : filename \in DOMAIN files }
        parents == { joined(output_dir, parent(filename)) :
                       filename \in DOMAIN files }
    IN  [dirs |-> fs.dirs \cup {output_dir} \cup parents,
         files |-> [p \in (DOMAIN fs.files) \cup written |->
                      IF p \in written
                      THEN files[CHOOSE filename \in DOMAIN files :
                                   joined(output_dir, filename) = p]
                      ELSE fs.files[p]]]

\* convert.py lines 91-97: the first workflow, or the first one whose display
\* name is the requested one
RECURSIVE first_named(_, _, _)
first_named(all_workflows, workflow_name, i) ==
    IF i > Len(all_workflows) THEN 0
    ELSE IF /\ hasattr_twiddle_workflow(all_workflows[i])
            /\ all_workflows[i].meta.name = workflow_name.value
    THEN i
    ELSE first_named(all_workflows, workflow_name, i + 1)

select_workflow(all_workflows, workflow_name) ==
    LET i == IF truthy(workflow_name)
             THEN first_named(all_workflows, workflow_name, 1) ELSE 0
    IN  IF i = 0 THEN all_workflows[1] ELSE all_workflows[i]

\* convert.py lines 111-116: the metadata handed to the generator of the target
handed_to_generator(workflow_meta, target) ==
    IF target = "airflow"
    THEN [workflow_meta EXCEPT
            !.dag_id = replace(lower(Get(workflow_meta, "name",
                                         << "twiddle_dag" >>)), " ", "_")]
    ELSE workflow_meta

\* convert.py lines 67-75 and 80-148: run_conversion from the end of discovery
convert_discovered(c, all_activities, all_workflows, errors) ==
    LET warned == IF errors # <<>> THEN << "Warnings during discovery:" >>
                  ELSE <<>>
        found == [c EXCEPT !.discovered = TRUE,
                           !.all_activities = all_activities,
                           !.all_workflows = all_workflows,
                           !.err = warned]
    IN  IF all_workflows = <<>>
        THEN [found EXCEPT !.pc = "exited", !.status = 1,
                !.err = Append(warned, "Error: No workflows found.")]
        ELSE LET warning ==
                   IF all_activities = <<>>
                   THEN Append(warned, "Warning: No activities found.")
                   ELSE warned
                 workflow_cls == select_workflow(all_workflows, c.workflow_name)
                 w == extract_workflow_metadata(workflow_cls)
                 a == extract_activities(all_activities)
             IN  IF w.raised # "none"
                 THEN [found EXCEPT !.pc = "raised", !.raised = w.raised,
                                    !.status = 1, !.err = warning,
                                    !.workflow_cls = workflow_cls]
                 ELSE IF a.raised # "none"
                 THEN [found EXCEPT !.pc = "raised", !.raised = a.raised,
                                    !.status = 1, !.err = warning,
                                    !.workflow_cls = workflow_cls]
                 ELSE LET workflow_meta == handed_to_generator(w.meta, c.target)
                          files ==
                            IF c.target = "airflow"
                            THEN generate_all_airflow_files(workflow_meta, a.metas)
                            ELSE generate_all_files(workflow_meta, a.metas)
                      IN  [found EXCEPT
                             !.pc = "returned", !.status = 0, !.err = warning,
                             !.workflow_cls = workflow_cls,
                             !.workflow_meta = workflow_meta,
                             !.files = files,
                             !.fs = write_files(c.fs, c.output_dir, files)]

\* run_conversion as it starts
Converting(tree, path, output, workflow_name, target) ==
    [pc |-> "started", tree |-> tree, path |-> path, output_dir |-> output,
     workflow_name |-> workflow_name, target |-> target,
     discovered |-> FALSE, all_activities |-> <<>>, all_workflows |-> <<>>,
     raised |-> "none", status |-> 0, err |-> <<>>, fs |-> EmptyFs,
     workflow_cls |-> Other(0, "", FALSE), workflow_meta |-> NoMeta, files |-> NotRun]

\* convert.py lines 42-78: run_conversion up to the end of discovery in a
\* file, or to the start of discovery in a directory
RunConversion(tree, path, output, workflow_name, target, addr) ==
    LET c == Converting(tree, path, output, workflow_name, target)
    IN  /\ conv.pc = "idle"
        /\ IF is_file(tree, path)
           THEN LET f == FileAt(tree, path)
                    r == load_module_from_path(registry, f, addr, nloads + 1)
                IN  /\ registry' = r.registry
                    /\ nloads' = nloads + 1
                    /\ last' = [file |-> f, before |-> registry, result |-> r]
                    /\ conv' =
                         IF r.raised = "none"
                         THEN [c EXCEPT
                                 !.pc = "discovered", !.discovered = TRUE,
                                 !.all_activities = discover_activities(f.members),
                                 !.all_workflows = discover_workflows(f.members)]
                         ELSE IF IsException(r.raised)
                         THEN [c EXCEPT !.pc = "exited", !.status = 1,
                                        !.err = << "Error loading" >>]
                         ELSE [c EXCEPT !.pc = "raised", !.raised = r.raised,
                                        !.status = f.body.code]
                    /\ UNCHANGED scan
           ELSE IF is_dir(tree, path)
           THEN /\ conv' = [c EXCEPT !.pc = "scanning"]
                /\ scan' = [pc |-> "loop", is_dir |-> TRUE, tree |-> tree,
                            remaining |-> rglob_py(tree), raised |-> "none",
                            all_activities |-> <<>>, all_workflows |-> <<>>,
                            errors |-> <<>>]
                /\ UNCHANGED <<registry, nloads, last>>
           ELSE /\ conv' = [c EXCEPT
                              !.pc = "exited", !.status = 1,
                              !.err = << "Error: not a valid file or directory" >>]
                /\ UNCHANGED <<registry, nloads, last, scan>>
        /\ UNCHANGED <<val, disc, lint, rep, ext, gen, proj, exec, store>>

\* convert.py lines 80-148, after discovery in a file or in a directory
ConvertDiscovered ==
    /\ \/ conv.pc = "discovered"
       \/ conv.pc = "scanning" /\ scan.pc \in {"returned", "raised"}
    /\ conv' =
         IF conv.pc = "discovered"
         THEN convert_discovered(conv, conv.all_activities,
                                 conv.all_workflows, <<>>)
         ELSE IF scan.pc = "raised"
         THEN [conv EXCEPT !.pc = "raised", !.raised = scan.raised,
                           !.status = last.file.body.code]
         ELSE convert_discovered(conv, scan.all_activities,
                                 scan.all_workflows, scan.errors)
    /\ UNCHANGED <<registry, nloads, last, scan, val, disc, lint, rep, ext, gen, proj, exec, store>>

NextConvert ==
    \/ /\ conv.pc = "idle"
       /\ \E tree \in CommandTrees, output \in OutputOptions,
             workflow_name \in NameOptions, target \in Targets, addr \in Addrs :
             \E path \in (DOMAIN tree) \cup {RootDir, Missing} :
                RunConversion(tree, path,
                              output_or_default(output, target),
                              workflow_name, target, addr)
    \/ /\ conv.pc = "scanning"
       /\ \E py_file \in CommandPaths, addr \in Addrs : ScanFile(py_file, addr)
    \/ /\ conv.pc = "scanning"
       /\ ScanReturn
    \/ ConvertDiscovered

SpecConvert == Init /\ [][NextConvert]_vars

\* run_conversion has ended: by sys.exit, by returning, or by an exception
ConvertEnded == conv.pc \in {"exited", "returned", "raised"}

\* the display name, lower-cased, spaces and dashes replaced by underscores
snake_cased(name) == replace(replace(lower(name), " ", "_"), "-", "_")

\* the override when one is given, otherwise the snake-cased display name
OverrideOrSnakeCased(override, name) ==
    IF override.given THEN override.value ELSE snake_cased(name)

\* the metadata the decorator attaches carries the override, or the
\* snake-cased display name, as task queue and as DAG id
DecoratorIdentifiers ==
    \A args \in WorkflowArgs :
       /\ DecoratedClass(args).meta.task_queue =
            OverrideOrSnakeCased(args.task_queue, args.name)
       /\ DecoratedClass(args).meta.dag_id =
            OverrideOrSnakeCased(args.dag_id, args.name)

(* C15: the identifier used for a workflow (Temporal task queue, Airflow   *)
(* DAG id) is the explicitly supplied override when one is given and       *)
(* otherwise the snake-cased display name; this holds for the metadata the *)
(* workflow decorator attaches and for the identifier the convert command  *)
(* hands to the generator of the selected target.                          *)
C15_IdentifierIsOverrideElseSnakeCasedName ==
    /\ DecoratorIdentifiers
    /\ \A args \in WorkflowArgs :
          (conv.pc = "returned" /\ conv.workflow_cls = DecoratedClass(args)) =>
             IF conv.target = "airflow"
             THEN conv.workflow_meta.dag_id =
                    OverrideOrSnakeCased(args.dag_id, args.name)
             ELSE conv.workflow_meta.task_queue =
                    OverrideOrSnakeCased(args.task_queue, args.name)

\* for the Temporal target the task queue handed to the generator is the
\* override, or the snake-cased display name
TemporalIdentifierHandedOn ==
    /\ DecoratorIdentifiers
    /\ \A args \in WorkflowArgs :
          (/\ conv.pc = "returned"
           /\ conv.workflow_cls = DecoratedClass(args)
           /\ conv.target = "temporal") =>
             conv.workflow_meta.task_queue =
               OverrideOrSnakeCased(args.task_queue, args.name)

\* extraction succeeds on the selected workflow and on every activity
ExtractionSucceeds ==
    /\ conv.all_workflows # <<>>
    /\ extract_workflow_metadata(
         select_workflow(conv.all_workflows, conv.workflow_name)).raised = "none"
    /\ extract_activities(conv.all_activities).raised = "none"

\* the files the generator of the target returns for the discovered components
GeneratedFiles ==
    LET w == extract_workflow_metadata(
               select_workflow(conv.all_workflows, conv.workflow_name)).meta
        a == extract_activities(conv.all_activities).metas
    IN  IF conv.target = "airflow"
        THEN generate_all_airflow_files(handed_to_generator(w, "airflow"), a)
        ELSE generate_all_files(w, a)

(* C12: when discovery, in a file or in a whole directory, finds no        *)
(* workflow class, run_conversion exits with status 1 and reports that no  *)
(* workflows were found, for either target, and neither creates the output *)
(* directory nor writes any file; when at least one workflow is found and  *)
(* extraction succeeds it ends with status 0 after writing every generated *)
(* file.                                                                   *)
C12_NoWorkflowExitsOneElseAllFilesWritten ==
    (ConvertEnded /\ conv.discovered) =>
        /\ conv.all_workflows = <<>> =>
             /\ conv.pc = "exited"
             /\ conv.status = 1
             /\ conv.err # <<>>
             /\ conv.err[Len(conv.err)] = "Error: No workflows found."
             /\ conv.fs = EmptyFs
        /\ ExtractionSucceeds =>
             /\ conv.pc = "returned"
             /\ conv.status = 0
             /\ conv.output_dir \in conv.fs.dirs
             /\ \A filename \in DOMAIN GeneratedFiles :
                   /\ joined(conv.output_dir, filename) \in DOMAIN conv.fs.files
                   /\ conv.fs.files[joined(conv.output_dir, filename)] =
                        GeneratedFiles[filename]
                   /\ joined(conv.output_dir, parent(filename)) \in conv.fs.dirs

\* a directory in which a file fails to load and the other defines an
\* activity and no workflow, converted for Airflow
C12_Witness ==
    /\ conv.pc = "exited"
    /\ conv.discovered
    /\ conv.path = RootDir
    /\ conv.target = "airflow"
    /\ conv.all_workflows = <<>>
    /\ conv.all_activities # <<>>
    /\ scan.errors # <<>>
    /\ conv.status = 1

\* a directory with two workflow classes converted for Airflow with --name
ConvertedByName ==
    /\ conv.pc = "returned"
    /\ conv.target = "airflow"
    /\ Len(conv.all_workflows) = 2
    /\ conv.workflow_cls = conv.all_workflows[2]
    /\ "tasks/act_two.py" \in DOMAIN conv.files
    /\ "./airflow_output/tasks/act_two.py" \in DOMAIN conv.fs.files
    /\ "./airflow_output/tasks" \in conv.fs.dirs

-----------------------------------------------------------------------------
(* The lint and convert commands of the command-line interface.  The PATH  *)
(* argument of both is declared click.Path(exists=True): a path that does  *)
(* not exist is a usage error, reported before the body of the command     *)
(* runs, and a usage error ends the process with status 2.  One invocation *)
(* of the program runs one command.                                        *)

UsageErrorStatus == 2

\* main.py lines 58-82: twiddle lint PATH --format F --target T
LintCommand(tree, path, output_format, target) ==
    /\ conv.pc = "idle"
    /\ IF exists(tree, path)
       THEN LintStart(tree, path, output_format, target)
       ELSE /\ lint.pc = "idle"
            /\ lint' = [pc |-> "exited", tree |-> tree, path |-> path,
                        kind |-> "usage", output_format |-> output_format,
                        target |-> target, queue |-> <<>>, results |-> <<>>,
                        raised |-> "none", status |-> UsageErrorStatus]
            /\ UNCHANGED <<registry, nloads, last, scan, val, disc, rep, ext,
                           gen, conv, proj, exec, store>>

\* main.py lines 85-118: twiddle convert PATH --output O --name N --target T
ConvertCommand(tree, path, output, workflow_name, target, addr) ==
    /\ lint.pc = "idle"
    /\ IF exists(tree, path)
       THEN RunConversion(tree, path, output_or_default(output, target),
                          workflow_name, target, addr)
       ELSE /\ conv.pc = "idle"
            /\ conv' = [Converting(tree, path, "", workflow_name, target)
                          EXCEPT !.pc = "exited", !.status = UsageErrorStatus,
                                 !.err = << "Usage: Path does not exist." >>]
            /\ UNCHANGED <<registry, nloads, last, scan, val, disc, lint, rep,
                           ext, gen, proj, exec, store>>

NextCommands ==
    \/ /\ lint.pc = "idle"
       /\ \E tree \in CommandTrees, output_format \in OutputFormats,
             target \in Targets :
             \E path \in (DOMAIN tree) \cup {RootDir, Missing} :
                LintCommand(tree, path, output_format, target)
    \/ \E addr \in Addrs : LintNext(addr)
    \/ LintReport
    \/ /\ conv.pc = "idle"
       /\ \E tree \in CommandTrees, output \in OutputOptions,
             workflow_name \in NameOptions, target \in Targets, addr \in Addrs :
             \E path \in (DOMAIN tree) \cup {RootDir, Missing} :
                ConvertCommand(tree, path, output, workflow_name, target, addr)
    \/ /\ conv.pc = "scanning"
       /\ \E py_file \in CommandPaths, addr \in Addrs : ScanFile(py_file, addr)
    \/ /\ conv.pc = "scanning"
       /\ ScanReturn
    \/ ConvertDiscovered

SpecCommands == Init /\ [][NextCommands]_vars

\* the lint command was invoked with a path that does not exist
LintOfMissingPath == lint.pc # "idle" /\ lint.path = Missing

\* the convert command was invoked with a path that does not exist
ConvertOfMissingPath == conv.pc # "idle" /\ conv.path = Missing

\* nothing was loaded, linted, discovered or written
NothingDone ==
    /\ nloads = 0
    /\ scan = NoScan
    /\ lint.pc # "idle" => lint.results = <<>>
    /\ conv.pc # "idle" =>
         ~conv.discovered /\ conv.fs = EmptyFs /\ conv.files = NotRun

(* C11: invoking the lint or the convert command with a path that does not *)
(* exist terminates the command with exit status 1, without linting,       *)
(* discovering or writing anything.                                        *)
C11_MissingPathExitsOneHavingDoneNothing ==
    /\ LintOfMissingPath =>
         lint.pc = "exited" /\ lint.status = 1 /\ NothingDone
    /\ ConvertOfMissingPath =>
         conv.pc = "exited" /\ conv.status = 1 /\ NothingDone

\* a command given a path that does not exist ends with the status of a usage
\* error, having linted, discovered and written nothing
MissingPathIsAUsageError ==
    /\ LintOfMissingPath =>
         lint.pc = "exited" /\ lint.status = UsageErrorStatus /\ NothingDone
    /\ ConvertOfMissingPath =>
         conv.pc = "exited" /\ conv.status = UsageErrorStatus /\ NothingDone

-----------------------------------------------------------------------------
(* The init command: create_project(name, template, output_dir).  The file *)
(* system is the set of directories and the files, by path; the content of *)
(* a file is the template it is written from and the project name the      *)
(* template interpolates.                                                  *)

\* init commands in one behaviour
MaxInits == 3

ProjectNames == {"p", "q"}
Templates == {"basic", "full"}
OutputDirs == {".", "out"}

\* a file that create_project did not write
UserFile == [template |-> "user", name |-> ""]

\* Path(output_dir) / name, and project_dir / relative
under(dir, relative) == dir \o "/" \o relative

\* the file systems the first init command may find: nothing but the current
\* directory; the project directory of "p" there already, empty, or holding a
\* file, or being a file itself
InitialFileSystems ==
    { [dirs |-> {"."}, files |-> [f \in {} |-> UserFile]],
      [dirs |-> {".", "./p"}, files |-> [f \in {} |-> UserFile]],
      [dirs |-> {".", "./p"}, files |-> [f \in {"./p/README.md"} |-> UserFile]],
      [dirs |-> {"."}, files |-> [f \in {"./p"} |-> UserFile]] }

\* Path.exists()
path_exists(fs, path) == path \in fs.dirs \/ path \in DOMAIN fs.files

\* init.py lines 33-38
ProjectDirectories == {"src", "src/workflows", "src/activities", "tests"}

\* the files create_project writes and the project name in those that
\* interpolate it, init.py lines 45-305
ProjectFiles(name) ==
    [f \in {"src/__init__.py", "src/workflows/__init__.py",
            "src/activities/__init__.py", "src/activities/greet.py",
            "src/workflows/hello_world.py", "pyproject.toml", ".env.example",
            ".gitignore", "README.md", "tests/test_hello_world.py"} |->
       [template |-> f,
        name |-> IF f \in {"pyproject.toml", "README.md"} THEN name ELSE ""]]

\* create_project writing into a project directory that exists
create_project_overwriting(fs, name, template, output_dir) ==
    LET project_dir == under(output_dir, name)
        written == { under(project_dir, f) : f \in DOMAIN ProjectFiles(name) }
    IN  [status |-> 0, raised |-> "none", err |-> <<>>,
         fs |-> [dirs |-> fs.dirs \cup {output_dir, project_dir}
                          \cup { under(project_dir, d) : d \in ProjectDirectories },
                 files |-> [p \in (DOMAIN fs.files) \cup written |->
                              IF p \in written
                              THEN ProjectFiles(name)[
                                     CHOOSE f \in DOMAIN ProjectFiles(name) :
                                        under(project_dir, f) = p]
                              ELSE fs.files[p]]]]

\* init.py lines 13-316: the status the command ends with and the file system
\* it leaves
create_project(fs, name, template, output_dir) ==
    LET project_dir == under(output_dir, name)
        written == { under(project_dir, f) : f \in DOMAIN ProjectFiles(name) }
    IN  IF path_exists(fs, project_dir)
        THEN [status |-> 1, raised |-> "SystemExit",
              err |-> << "Error: Directory already exists" >>, fs |-> fs]
        ELSE [status |-> 0, raised |-> "none", err |-> <<>>,
              fs |-> [dirs |-> fs.dirs \cup {output_dir, project_dir}
                               \cup { under(project_dir, d) :
                                        d \in ProjectDirectories },
                      files |-> [p \in (DOMAIN fs.files) \cup written |->
                                   IF p \in written
                                   THEN ProjectFiles(name)[
                                          CHOOSE f \in DOMAIN ProjectFiles(name) :
                                             under(project_dir, f) = p]
                                   ELSE fs.files[p]]]]

\* main.py lines 32-55: twiddle init NAME --template T --output O, on the file
\* system the previous commands left
InitCommand(fs, name, template, output) ==
    LET r == create_project(fs, name, template, output)
        run == [name |-> name, template |-> template, output |-> output,
                before |-> fs, after |-> r.fs, status |-> r.status,
                err |-> r.err]
    IN  /\ \/ proj.pc = "idle" /\ fs \in InitialFileSystems
           \/ proj.pc = "ran" /\ fs = proj.fs /\ Len(proj.runs) < MaxInits
        /\ proj' = [pc |-> "ran", fs |-> r.fs,
                    runs |-> IF proj.pc = "idle" THEN << run >>
                             ELSE Append(proj.runs, run)]
        /\ UNCHANGED <<registry, nloads, last, scan, val, disc, lint, rep, ext,
                       gen, conv, exec, store>>

NextInit ==
    \/ /\ proj.pc = "idle"
       /\ \E fs \in InitialFileSystems, name \in ProjectNames,
             template \in Templates, output \in OutputDirs :
             InitCommand(fs, name, template, output)
    \/ /\ proj.pc = "ran"
       /\ \E name \in ProjectNames, template \in Templates,
             output \in OutputDirs :
             InitCommand(proj.fs, name, template, output)

SpecInit == Init /\ [][NextInit]_vars

\* the init commands run so far
InitRuns == IF proj.pc = "idle" THEN <<>> ELSE proj.runs

\* the project directory of a run
ProjectDir(run) == under(run.output, run.name)

\* the project of the run is in place in the file system
ProjectInPlace(run, fs) ==
    /\ ProjectDir(run) \in fs.dirs
    /\ \A d \in ProjectDirectories : under(ProjectDir(run), d) \in fs.dirs
    /\ \A f \in DOMAIN ProjectFiles(run.name) :
          /\ under(ProjectDir(run), f) \in DOMAIN fs.files
          /\ fs.files[under(ProjectDir(run), f)] = ProjectFiles(run.name)[f]

(* C13: the init command, when the target project directory already        *)
(* exists, exits with status 1 and creates or modifies nothing inside that *)
(* directory; running init twice with the same name and output directory   *)
(* therefore succeeds the first time and fails the second time, leaving    *)
(* the first project's files unchanged.                                    *)
C13_ExistingProjectDirIsLeftAlone ==
    /\ \A i \in DOMAIN InitRuns :
          LET run == InitRuns[i]
          IN  IF path_exists(run.before, ProjectDir(run))
              THEN run.status = 1 /\ run.after = run.before
              ELSE run.status = 0 /\ ProjectInPlace(run, run.after)
    /\ \A i \in DOMAIN InitRuns : \A j \in DOMAIN InitRuns :
          (/\ i < j
           /\ InitRuns[i].name = InitRuns[j].name
           /\ InitRuns[i].output = InitRuns[j].output
           /\ InitRuns[i].status = 0) =>
             /\ InitRuns[j].status = 1
             /\ InitRuns[j].after = InitRuns[j].before
             /\ ProjectInPlace(InitRuns[i], InitRuns[j].after)

\* init run twice with the same name and output directory, with another
\* template the second time
C13_Witness ==
    /\ Len(InitRuns) = 2
    /\ InitRuns[1].name = InitRuns[2].name
    /\ InitRuns[1].output = InitRuns[2].output
    /\ InitRuns[1].template # InitRuns[2].template
    /\ InitRuns[1].status = 0
    /\ InitRuns[2].status = 1
    /\ proj.fs = InitRuns[1].after

-----------------------------------------------------------------------------
(* Execution logging: ExecutionLogger and with_execution_logging.  The log *)
(* is the sequence of [TWIDDLE_EVENT] lines; the human-readable line that  *)
(* follows each of them matters only where formatting it raises.  Data     *)
(* handed to the logger is modelled by what json.dumps makes of it.        *)

\* input_data / output_data: None, a dict with string keys, a dict with a key
\* that json.dumps rejects (a tuple), or a value that is no dict
DataKinds == {"None", "dict", "dict_with_tuple_key", "scalar"}

\* _summarize_data, lines 134-151: None stays None, a value that is no dict
\* becomes {"value": str(data)}, a dict keeps its (first ten) keys
summarize_data(data) ==
    CASE data = "None" -> "None"
      [] data = "scalar" -> "dict"
      [] OTHER -> data

\* ExecutionLogger.__init__, lines 79-91; attempt: what activity.info() tells
ExecutionLogger(attempt) == [start_time |-> "None", attempt_number |-> attempt]

\* the ExecutionEvent dataclass, lines 39-54
ExecutionEvent(event, attempt, duration, input_summary, output_summary, error_type) ==
    [event |-> event, attempt_number |-> attempt,
     duration_ms |-> duration, input_summary |-> input_summary,
     output_summary |-> output_summary, error_type |-> error_type]

\* _emit_event, lines 111-128: the lines added to the log, and the exception
\* that leaves the method.  json.dumps raises on a key that is no str, int,
\* float, bool or None; the completed line formats duration_ms with ":.0f",
\* which raises on None
emit_event(event) ==
    IF "dict_with_tuple_key" \in {event.input_summary, event.output_summary}
    THEN [out |-> <<>>, raised |-> "TypeError"]
    ELSE IF event.event = "ACTIVITY_COMPLETED" /\ event.duration_ms = "None"
    THEN [out |-> << event >>, raised |-> "TypeError"]
    ELSE [out |-> << event >>, raised |-> "none"]

\* (time.time() - self.start_time) * 1000 if self.start_time else None
duration_ms(self) == IF self.start_time = "None" THEN "None" ELSE "elapsed"

\* started, lines 153-181
started(self, input_data) ==
    LET now == [self EXCEPT !.start_time = "set"]
        retry == IF self.attempt_number > 1
                 THEN emit_event(ExecutionEvent("ACTIVITY_RETRY",
                        self.attempt_number, "None",
                        summarize_data(input_data), "None", "None"))
                 ELSE [out |-> <<>>, raised |-> "none"]
        start == emit_event(ExecutionEvent("ACTIVITY_STARTED",
                   self.attempt_number, "None", summarize_data(input_data),
                   "None", "None"))
    IN  IF retry.raised # "none"
        THEN [self |-> now, out |-> retry.out, raised |-> retry.raised]
        ELSE [self |-> now, out |-> retry.out \o start.out,
              raised |-> start.raised]

\* completed, lines 183-200
completed(self, output_data) ==
    LET e == emit_event(ExecutionEvent("ACTIVITY_COMPLETED",
               self.attempt_number, duration_ms(self), "None",
               summarize_data(output_data), "None"))
    IN  [self |-> self, out |-> e.out, raised |-> e.raised]

\* failed, lines 202-221
failed(self, error) ==
    LET e == emit_event(ExecutionEvent("ACTIVITY_FAILED",
               self.attempt_number, duration_ms(self), "None", "None", error))
    IN  [self |-> self, out |-> e.out, raised |-> e.raised]

\* heartbeat, lines 223-235
heartbeat(self, message) ==
    LET e == emit_event(ExecutionEvent("ACTIVITY_HEARTBEAT",
               self.attempt_number, "None", "None",
               IF message # "" THEN "dict" ELSE "None", "None"))
    IN  [self |-> self, out |-> e.out, raised |-> e.raised]

(* One ExecutionLogger and the event methods called on it, in any order.   *)

\* event-method calls on one logger
MaxLogCalls == 3

Attempts == {1, 2}

\* logger = ExecutionLogger(node_id, node_name, node_type)
NewLogger(attempt) ==
    /\ exec.pc = "idle"
    /\ exec' = [pc |-> "logger", self |-> ExecutionLogger(attempt),
                log |-> <<>>, calls |-> <<>>]
    /\ UNCHANGED <<registry, nloads, last, scan, val, disc, lint, rep, ext, gen, conv, proj, store>>

\* the call `method(argument)` on the logger, with the result r
LoggerCall(method, argument, r) ==
    /\ exec.pc = "logger"
    /\ Len(exec.calls) < MaxLogCalls
    /\ exec' = [pc |-> "logger", self |-> r.self, log |-> exec.log \o r.out,
                calls |-> Append(exec.calls,
                            [method |-> method, argument |-> argument,
                             was_started |-> exec.self.start_time # "None",
                             out |-> r.out, raised |-> r.raised])]
    /\ UNCHANGED <<registry, nloads, last, scan, val, disc, lint, rep, ext, gen, conv, proj, store>>

Started(input_data) ==
    LoggerCall("started", input_data, started(exec.self, input_data))

Completed(output_data) ==
    LoggerCall("completed", output_data, completed(exec.self, output_data))

Failed(error) == LoggerCall("failed", error, failed(exec.self, error))

Heartbeat(message) ==
    LoggerCall("heartbeat", message, heartbeat(exec.self, message))

NextLogger ==
    \/ /\ exec.pc = "idle"
       /\ \E attempt \in Attempts : NewLogger(attempt)
    \/ /\ exec.pc = "logger"
       /\ \E input_data \in DataKinds : Started(input_data)
    \/ /\ exec.pc = "logger"
       /\ \E output_data \in DataKinds : Completed(output_data)
    \/ /\ exec.pc = "logger"
       /\ \E error \in {"ValueError", "RuntimeError"} : Failed(error)
    \/ /\ exec.pc = "logger"
       /\ \E message \in {"", "m"} : Heartbeat(message)

SpecLogger == Init /\ [][NextLogger]_vars

\* the event-method calls made so far on the logger
LoggerCalls == IF exec.pc = "logger" THEN exec.calls ELSE <<>>

\* the call is given something json.dumps can serialise
Serialisable(call) == call.argument # "dict_with_tuple_key"

(* C30: every event method succeeds in every state of the logger:          *)
(* completed() and failed() called on a logger whose started() was never   *)
(* called emit their event with a null duration and return normally, just  *)
(* as they emit the elapsed duration after started(); no order of started, *)
(* completed, failed and heartbeat calls makes a logging call raise.       *)
C30_EveryEventMethodSucceedsInEveryState ==
    \A i \in DOMAIN LoggerCalls :
       LET call == LoggerCalls[i]
       IN  Serialisable(call) =>
             /\ call.raised = "none"
             /\ call.method \in {"completed", "failed"} =>
                  /\ Len(call.out) = 1
                  /\ call.out[1].duration_ms =
                       (IF call.was_started THEN "elapsed" ELSE "None")

\* every call but completed() on a logger that was never started returns
\* normally, and completed() and failed() emit their event in every state
OnlyCompletedBeforeStartedRaises ==
    \A i \in DOMAIN LoggerCalls :
       LET call == LoggerCalls[i]
       IN  Serialisable(call) =>
             /\ call.raised # "none" <=>
                  (call.method = "completed" /\ ~call.was_started)
             /\ call.raised # "none" => call.raised = "TypeError"
             /\ call.method \in {"completed", "failed"} =>
                  /\ Len(call.out) = 1
                  /\ call.out[1].duration_ms =
                       (IF call.was_started THEN "elapsed" ELSE "None")

(* A function wrapped by with_execution_logging, called repeatedly.        *)

\* calls of the wrapped function
MaxWrappedCalls == 2

\* what awaiting the wrapped function ends with
FuncOutcomes ==
    [kind : {"returned"}, value : DataKinds]
    \cup [kind : {"raised"}, value : {"ValueError", "CancelledError", "SystemExit"}]

\* the wrapped calls made so far
WrappedCalls == IF exec.pc \in {"awaiting", "called"} THEN exec.calls ELSE <<>>

\* lines 257-265: the logger is made and started(input.input_data) is called;
\* an exception of started is handled by the except clause of lines 269-271
WrapperCall(attempt, input_data) ==
    LET self == ExecutionLogger(attempt)
        s == started(self, input_data)
        f == failed(s.self, s.raised)
        call == [attempt |-> attempt, input_data |-> input_data,
                 func_ran |-> FALSE, before_func |-> s.out,
                 func |-> [kind |-> "none", value |-> "None"],
                 events |-> s.out, outcome |-> [kind |-> "none", value |-> "None"]]
    IN  /\ exec.pc \in {"idle", "called"}
        /\ Len(WrappedCalls) < MaxWrappedCalls
        /\ exec' =
             IF s.raised = "none"
             THEN [pc |-> "awaiting", self |-> s.self,
                   calls |-> Append(WrappedCalls, call)]
             ELSE IF IsException(s.raised)
             THEN [pc |-> "called", self |-> f.self,
                   calls |-> Append(WrappedCalls,
                      [call EXCEPT !.events = s.out \o f.out,
                                   !.outcome = [kind |-> "raised",
                                                value |-> IF f.raised # "none"
                                                          THEN f.raised
                                                          ELSE s.raised]])]
             ELSE [pc |-> "called", self |-> s.self,
                   calls |-> Append(WrappedCalls,
                      [call EXCEPT !.outcome = [kind |-> "raised",
                                                value |-> s.raised]])]
        /\ UNCHANGED <<registry, nloads, last, scan, val, disc, lint, rep, ext, gen, conv, proj, store>>

\* lines 266-271: the awaited function ends, and the wrapper with it
FuncEnds(func) ==
    LET n == Len(exec.calls)
        call == [exec.calls[n] EXCEPT !.func_ran = TRUE, !.func = func]
        c == completed(exec.self, func.value)
        error == IF func.kind = "returned" THEN c.raised ELSE func.value
        f == failed(exec.self, error)
        done ==
          IF func.kind = "returned" /\ c.raised = "none"
          THEN [call EXCEPT !.events = @ \o c.out, !.outcome = func]
          ELSE IF IsException(error)
          THEN [call EXCEPT
                  !.events = @ \o (IF func.kind = "returned" THEN c.out ELSE <<>>)
                               \o f.out,
                  !.outcome = [kind |-> "raised",
                               value |-> IF f.raised # "none" THEN f.raised
                                         ELSE error]]
          ELSE [call EXCEPT
                  !.events = @ \o (IF func.kind = "returned" THEN c.out ELSE <<>>),
                  !.outcome = [kind |-> "raised", value |-> error]]
    IN  /\ exec.pc = "awaiting"
        /\ exec' = [pc |-> "called", self |-> exec.self,
                    calls |-> [exec.calls EXCEPT ![n] = done]]
        /\ UNCHANGED <<registry, nloads, last, scan, val, disc, lint, rep, ext, gen, conv, proj, store>>

NextWrapper ==
    \/ /\ exec.pc \in {"idle", "called"}
       /\ \E attempt \in Attempts, input_data \in DataKinds :
             WrapperCall(attempt, input_data)
    \/ /\ exec.pc = "awaiting"
       /\ \E func \in FuncOutcomes : FuncEnds(func)

SpecWrapper == Init /\ [][NextWrapper]_vars

\* the positions of the events of the call with one of the names
EventsNamed(call, names) ==
    { k \in DOMAIN call.events : call.events[k].event \in names }

TerminalEvents == {"ACTIVITY_COMPLETED", "ACTIVITY_FAILED"}

(* C22: every call of a function wrapped by with_execution_logging emits   *)
(* ACTIVITY_STARTED before the wrapped function runs and then exactly one  *)
(* terminal event: ACTIVITY_COMPLETED when the function returns (its       *)
(* result is returned unchanged) or ACTIVITY_FAILED when it raises (the    *)
(* same exception is re-raised to the caller); a single call never emits   *)
(* both terminal events and never a terminal event without a preceding     *)
(* ACTIVITY_STARTED.                                                       *)
C22_StartedThenExactlyOneTerminalEvent ==
    \A i \in DOMAIN WrappedCalls :
       LET call == WrappedCalls[i]
           ended == call.outcome.kind # "none"
       IN  /\ call.func_ran =>
                \E k \in DOMAIN call.before_func :
                   call.before_func[k].event = "ACTIVITY_STARTED"
           /\ \A k \in EventsNamed(call, TerminalEvents) :
                 \E j \in EventsNamed(call, {"ACTIVITY_STARTED"}) : j < k
           /\ Cardinality(EventsNamed(call, TerminalEvents)) <= 1
           /\ ended =>
                /\ call.func_ran
                /\ Cardinality(EventsNamed(call, TerminalEvents)) = 1
                /\ call.func.kind = "returned" =>
                     /\ EventsNamed(call, {"ACTIVITY_COMPLETED"}) # {}
                     /\ call.outcome = call.func
                /\ call.func.kind = "raised" =>
                     /\ EventsNamed(call, {"ACTIVITY_FAILED"}) # {}
                     /\ call.outcome = call.func

\* the data of the call can be serialised and the function returns or raises
\* an exception that derives from Exception
OrdinaryCall(call) ==
    /\ call.input_data # "dict_with_tuple_key"
    /\ call.outcome.kind # "none" =>
         /\ call.func.kind = "returned" => call.func.value # "dict_with_tuple_key"
         /\ call.func.kind = "raised" => IsException(call.func.value)

\* on ordinary calls the wrapper emits ACTIVITY_STARTED, runs the function and
\* emits the one terminal event of its outcome
OrdinaryCallsAreLoggedOnce ==
    \A i \in DOMAIN WrappedCalls :
       LET call == WrappedCalls[i]
       IN  OrdinaryCall(call) =>
             /\ \E k \in DOMAIN call.before_func :
                   call.before_func[k].event = "ACTIVITY_STARTED"
             /\ call.outcome.kind # "none" =>
                  /\ call.func_ran
                  /\ Cardinality(EventsNamed(call, TerminalEvents)) = 1
                  /\ call.outcome = call.func
                  /\ EventsNamed(call, {IF call.func.kind = "returned"
                                        THEN "ACTIVITY_COMPLETED"
                                        ELSE "ACTIVITY_FAILED"}) # {}

-----------------------------------------------------------------------------
(* The metadata records as objects.  A decorator stores one dict on the    *)
(* object it decorates; the heap holds the dicts by reference, so that a   *)
(* write through one reference is seen through every other reference to  *)
(* the same dict.                                                          *)

\* pipeline operations applied to one pair of decorated objects
MaxPipelineOps == 3

\* d[key] = value
DictSet(d, key, value) ==
    [k \in DOMAIN d \cup {key} |-> IF k = key THEN value ELSE d[k]]

\* heap[ref][key] = value
setitem(heap, ref, key, value) ==
    [heap EXCEPT ![ref] = DictSet(@, key, value)]

\* meta = func._twiddle_activity: the same dict under another name
dict_alias(heap, ref) == [heap |-> heap, ref |-> ref]

\* meta = func._twiddle_activity.copy(): a new dict with the same items
dict_copy(heap, ref) ==
    [heap |-> Append(heap, heap[ref]), ref |-> Len(heap) + 1]

\* extractor.py lines 23-81 on the heap: the reference of the returned record
\* (0 when an exception leaves the function) and the heap afterwards
extract_activity_record(heap, func, ref) ==
    IF ~hasattr_twiddle_activity(func)
    THEN [heap |-> heap, ref |-> 0,
          raised |-> IF func.has_name THEN "ValueError" ELSE "AttributeError"]
    ELSE LET meta == dict_copy(heap, ref)
         IN  IF ~func.has_signature
             THEN [heap |-> meta.heap, ref |-> 0,
                   raised |-> func.signature_raises.exception]
             ELSE LET parameters == extract_parameters(func.params, 1)
                      h1 == setitem(meta.heap, meta.ref, "parameters",
                                    parameters.parameters)
                      h2 == setitem(h1, meta.ref, "is_async", func.is_async)
                      h3 == setitem(h2, meta.ref, "docstring", None)
                      h4 == IF func.has_return
                            THEN setitem(h3, meta.ref, "return_type", "Dict")
                            ELSE h3
                  IN  IF parameters.raised # "none"
                      THEN [heap |-> meta.heap, ref |-> 0,
                            raised |-> parameters.raised]
                      ELSE [heap |-> h4, ref |-> meta.ref, raised |-> "none"]

\* extractor.py lines 94-108 on the heap
extract_workflow_record(heap, cls, ref) ==
    IF ~hasattr_twiddle_workflow(cls)
    THEN [heap |-> heap, ref |-> 0, raised |-> "ValueError"]
    ELSE LET meta == dict_copy(heap, ref)
             h1 == setitem(meta.heap, meta.ref, "class_name", cls.name)
             h2 == setitem(h1, meta.ref, "docstring", None)
         IN  IF cls.run = "absent"
             THEN [heap |-> h2, ref |-> meta.ref, raised |-> "none"]
             ELSE IF cls.run = "not_callable"
             THEN [heap |-> h2, ref |-> 0, raised |-> "TypeError"]
             ELSE LET h3 == setitem(h2, meta.ref, "run_signature",
                                    "(self, input_data)")
                      h4 == setitem(h3, meta.ref, "run_docstring", None)
                      h5 == setitem(h4, meta.ref, "run_is_async", TRUE)
                  IN  [heap |-> h5, ref |-> meta.ref, raised |-> "none"]

\* convert.py line 100 on the heap: [extract_activity_metadata(a) for a in
\* all_activities], every activity being the object whose record is at ref
RECURSIVE extract_activity_records(_, _, _)
extract_activity_records(heap, all_activities, ref) ==
    IF all_activities = <<>>
    THEN [heap |-> heap, refs |-> <<>>, raised |-> "none"]
    ELSE LET first == extract_activity_record(heap, Head(all_activities), ref)
             rest == extract_activity_records(first.heap, Tail(all_activities), ref)
         IN  IF first.raised # "none"
             THEN [heap |-> first.heap, refs |-> <<>>, raised |-> first.raised]
             ELSE IF rest.raised # "none" THEN rest
             ELSE [heap |-> rest.heap, refs |-> << first.ref >> \o rest.refs,
                   raised |-> "none"]

\* convert.py lines 91-116 on the heap, for the activities and workflows that
\* discovery returned (lines 61-62; at least one workflow, line 83): the
\* workflow is the first one, it and every discovered activity are extracted
\* and, for Airflow, the dag_id is written to the workflow record that is
\* handed to the generator
convert_records(heap, all_activities, activity_ref, all_workflows, workflow_ref, target) ==
    LET w == extract_workflow_record(heap, all_workflows[1], workflow_ref)
        a == extract_activity_records(w.heap, all_activities, activity_ref)
    IN  IF w.raised # "none"
        THEN [heap |-> w.heap, returned |-> <<>>, raised |-> w.raised]
        ELSE IF a.raised # "none"
        THEN [heap |-> a.heap, returned |-> <<>>, raised |-> a.raised]
        ELSE [heap |->
                IF target = "airflow"
                THEN setitem(a.heap, w.ref, "dag_id",
                             replace(lower(Get(a.heap[w.ref], "name",
                                               << "twiddle_dag" >>)), " ", "_"))
                ELSE a.heap,
              returned |-> << [kind |-> "workflow", ref |-> w.ref,
                               converted |-> target] >>
                           \o [i \in DOMAIN a.refs |->
                                 [kind |-> "activity", ref |-> a.refs[i],
                                  converted |-> target]],
              raised |-> "none"]

\* the decorated activities of the pipeline
PipelineActivities ==
    { Function(1, "act", TRUE, TRUE, <<>>, TRUE),
      Function(1, "act", TRUE, FALSE,
               << [name |-> "x", kind |-> "POSITIONAL_OR_KEYWORD",
                   default |-> "plain", descriptor |-> NoDescriptor,
                   annotation |-> NoAnnotation] >>, FALSE),
      \* def typed(x: Parameter[str] = Parameter("L", required=True))
      Function(1, "typed", TRUE, FALSE,
               << [name |-> "x", kind |-> "POSITIONAL_OR_KEYWORD",
                   default |-> "Parameter",
                   descriptor |-> ParameterDescriptor("L", TRUE, FALSE),
                   annotation |-> Annotation(TRUE, TRUE, TRUE,
                                    << TypeArg(TRUE, "str") >>, FALSE, "",
                                    "twiddle_dsl.parameter.Parameter[str]")] >>,
               TRUE),
      \* def mode(x: Literal["a"] = "a")
      Function(1, "mode", TRUE, FALSE,
               << [name |-> "x", kind |-> "POSITIONAL_OR_KEYWORD",
                   default |-> "plain", descriptor |-> NoDescriptor,
                   annotation |-> Annotation(TRUE, TRUE, TRUE,
                                    << TypeArg(FALSE, "") >>, FALSE, "",
                                    "typing.Literal['a']")] >>, TRUE),
      OpaqueCallable(1, "partial", TRUE, IncorrectArguments, TRUE, FALSE, FALSE),
      OpaqueCallable(1, "obj", TRUE, InvalidSignatureAttribute, TRUE, FALSE, FALSE) }

\* @activity(...) and @workflow(...) applied: each stores its record on the
\* object it decorates (activity.py lines 59-67, workflow.py lines 54-67); the
\* heap holds the two records at the references 1 and 2
Decorate(func, args) ==
    /\ store.pc = "idle"
    /\ store' = [pc |-> "decorated", func |-> func, cls |-> DecoratedClass(args),
                 heap |-> << func.meta, DecoratedClass(args).meta >>,
                 activity_ref |-> 1, workflow_ref |-> 2,
                 returned |-> <<>>, ops |-> 0, result |-> "none"]
    /\ UNCHANGED <<registry, nloads, last, scan, val, disc, lint, rep, ext, gen, conv, proj, exec>>

\* the module that defines the two decorated objects
PipelineModule ==
    [defs |-> {store.func.id, store.cls.id},
     members |-> << [name |-> "a", obj |-> store.cls],
                    [name |-> "b", obj |-> store.func] >>]

\* discover_activities and discover_workflows on the module of the two objects
PipelineDiscover ==
    /\ store.pc = "decorated"
    /\ store.ops < MaxPipelineOps
    /\ LET module == PipelineModule
       IN  store' = [store EXCEPT
                       !.ops = @ + 1,
                       !.result = << discover_activities(module),
                                     discover_workflows(module) >>]
    /\ UNCHANGED <<registry, nloads, last, scan, val, disc, lint, rep, ext, gen, conv, proj, exec>>

\* validate_activity and validate_workflow on the two objects
PipelineValidate(target) ==
    /\ store.pc = "decorated"
    /\ store.ops < MaxPipelineOps
    /\ store' = [store EXCEPT
                   !.ops = @ + 1,
                   !.result = << validate_activity(store.func, target),
                                 validate_workflow(store.cls, target) >>]
    /\ UNCHANGED <<registry, nloads, last, scan, val, disc, lint, rep, ext, gen, conv, proj, exec>>

PipelineExtractActivity ==
    /\ store.pc = "decorated"
    /\ store.ops < MaxPipelineOps
    /\ LET r == extract_activity_record(store.heap, store.func, store.activity_ref)
       IN  store' = [store EXCEPT
                       !.ops = @ + 1, !.heap = r.heap, !.result = r.raised,
                       !.returned =
                          IF r.raised = "none"
                          THEN Append(@, [kind |-> "activity", ref |-> r.ref,
                                          converted |-> "none"])
                          ELSE @]
    /\ UNCHANGED <<registry, nloads, last, scan, val, disc, lint, rep, ext, gen, conv, proj, exec>>

PipelineExtractWorkflow ==
    /\ store.pc = "decorated"
    /\ store.ops < MaxPipelineOps
    /\ LET r == extract_workflow_record(store.heap, store.cls, store.workflow_ref)
       IN  store' = [store EXCEPT
                       !.ops = @ + 1, !.heap = r.heap, !.result = r.raised,
                       !.returned =
                          IF r.raised = "none"
                          THEN Append(@, [kind |-> "workflow", ref |-> r.ref,
                                          converted |-> "none"])
                          ELSE @]
    /\ UNCHANGED <<registry, nloads, last, scan, val, disc, lint, rep, ext, gen, conv, proj, exec>>

\* the file that defines the two decorated objects
PipelineFile ==
    [path |-> [dir |-> "d1", stem |-> "a", suffix |-> ".py"], exists |-> TRUE,
     body |-> BodyOk, members |-> PipelineModule]

\* run_conversion on the file of the two objects, up to the record that is
\* handed to the generator: the load (line 60), which registers the module,
\* discovery and the metadata statements
PipelineConvert(target, addr) ==
    /\ store.pc = "decorated"
    /\ store.ops < MaxPipelineOps
    /\ LET f == PipelineFile
           load == load_module_from_path(registry, f, addr, nloads + 1)
           module == f.members
           r == convert_records(store.heap, discover_activities(module),
                                store.activity_ref, discover_workflows(module),
                                store.workflow_ref, target)
       IN  /\ registry' = load.registry
           /\ nloads' = nloads + 1
           /\ last' = [file |-> f, before |-> registry, result |-> load]
           /\ store' = [store EXCEPT
                          !.ops = @ + 1, !.heap = r.heap, !.result = r.raised,
                          !.returned = @ \o r.returned]
    /\ UNCHANGED <<scan, val, disc, lint, rep, ext, gen, conv, proj, exec>>

NextPipeline ==
    \/ /\ store.pc = "idle"
       /\ \E func \in PipelineActivities, args \in WorkflowArgs :
             Decorate(func, args)
    \/ PipelineDiscover
    \/ \E target \in Targets : PipelineValidate(target)
    \/ PipelineExtractActivity
    \/ PipelineExtractWorkflow
    \/ \E target \in Targets, addr \in Addrs : PipelineConvert(target, addr)

SpecPipeline == Init /\ [][NextPipeline]_vars

\* the fields the Extractor and run_conversion derive
DerivedActivityFields == {"parameters", "docstring", "return_type"}
DerivedWorkflowFields ==
    {"docstring", "run_signature", "run_docstring", "run_is_async"}

\* the records returned so far by the extractions
ReturnedRecords == { store.returned[i] : i \in DOMAIN store.returned }

(* C25: no pipeline operation changes the record a decorator attached: it  *)
(* stays the record the decorator stored, without any derived field.  The  *)
(* derived fields (parameters, docstring, return type, run signature, the  *)
(* dag_id recomputed for Airflow) are on the separate record each          *)
(* extraction returns.                                                     *)
C25_AttachedRecordsAreNeverChanged ==
    store.pc = "decorated" =>
        /\ store.heap[store.activity_ref] = store.func.meta
        /\ store.heap[store.workflow_ref] = store.cls.meta
        /\ DOMAIN store.heap[store.activity_ref] \cap DerivedActivityFields = {}
        /\ DOMAIN store.heap[store.workflow_ref] \cap DerivedWorkflowFields = {}
        /\ \A r \in ReturnedRecords :
              /\ r.ref \notin {store.activity_ref, store.workflow_ref}
              /\ r.kind = "activity" =>
                   /\ {"parameters", "docstring"} \subseteq DOMAIN store.heap[r.ref]
                   /\ store.func.has_return
                        <=> "return_type" \in DOMAIN store.heap[r.ref]
              /\ r.kind = "workflow" =>
                   /\ "docstring" \in DOMAIN store.heap[r.ref]
                   /\ store.cls.run = "callable"
                        <=> "run_signature" \in DOMAIN store.heap[r.ref]
                   /\ r.converted = "airflow" =>
                        store.heap[r.ref].dag_id =
                          replace(lower(store.cls.meta.name), " ", "_")
                   /\ r.converted # "airflow" =>
                        store.heap[r.ref].dag_id = store.cls.meta.dag_id

\* a conversion for Airflow has returned a workflow record whose recomputed
\* dag_id differs from the one of the attached record, and an activity record
C25_Witness ==
    /\ store.pc = "decorated"
    /\ \E w, a \in ReturnedRecords :
          /\ w.kind = "workflow"
          /\ w.converted = "airflow"
          /\ store.heap[w.ref].dag_id # store.heap[store.workflow_ref].dag_id
          /\ a.kind = "activity"
          /\ "parameters" \in DOMAIN store.heap[a.ref]
          /\ "parameters" \notin DOMAIN store.heap[store.activity_ref]

====
